---- MODULE Spec2Model ----
(***************************************************************************)
(* Model of the FlexRender coordinator: the framed message transport of    *)
(* NetNode (Send / Flush / Receive), the image-slab partition computed by  *)
(* client::StartRender, and the engine's worker lifecycle with its         *)
(* fences, mesh handoff, monitors and image merge.                         *)
(***************************************************************************)
EXTENDS Integers, Sequences, FiniteSets, TLC

VARIABLES
  \* ---- framing (NetNode) ----
  tx,          \* the sending NetNode: buffer, nwritten, flushed, and its socket
  rx,          \* the receiving NetNode: mode, nread, message, and what it dispatched
  sentlog,     \* every Message passed to Send, in call order
  ages,        \* per byte buffered in tx: flush-timer ticks it has sat through
  lastop,      \* the NetNode operation that ran last
  \* ---- engine ----
  config,      \* the Config of the run, with the command line's intervals and linear_scan
  starts,      \* RENDER_START slabs computed so far (partition specification)
  eng,         \* the coordinator: file-scope state of the engine, its Library,
               \* the NetNodes' lifecycle state and the connections' queues
  prod,        \* the scene-parsing thread: its place in OnSyncStart / SyncMesh
  wk           \* the workers at the far end of the connections

netVars == <<tx, rx, sentlog, ages, lastop>>
lifeVars == <<eng, prod, wk>>

vars == <<tx, rx, sentlog, ages, lastop, config, starts, eng, prod, wk>>

(***************************************************************************)
(* Bounds of the framing model.                                            *)
(***************************************************************************)
\* FR_WRITE_BUFFER_SIZE, scaled down so that bodies larger than the buffer
\* are reachable; two empty messages still fit in it together
WriteBufferSize == 18
\* largest body size drawn for a message: larger than the buffer
MaxBody == 20
\* number of Send calls in a run
MaxMsgs == 2
\* longest chunk fed to Receive short of the whole unread stream
MaxChunk == 9
\* flush-timer ticks a byte's age is counted up to
MaxAge == 3

\* sizeof(msg.kind) + sizeof(msg.size)
HeaderSize == 8

\* body sizes drawn: empty, one byte, leaving room for exactly one more header,
\* filling the buffer after a header exactly, one byte more than that, and
\* larger than the whole buffer
Sizes ==
  {0, 1, WriteBufferSize - 2 * HeaderSize, WriteBufferSize - HeaderSize,
   WriteBufferSize - HeaderSize + 1, MaxBody}

(***************************************************************************)
(* Bytes and the host-order (little-endian) layout of a uint32_t.          *)
(***************************************************************************)
RECURSIVE Pow256(_)
Pow256(i) == IF i = 0 THEN 1 ELSE 256 * Pow256(i - 1)

\* the four bytes of a uint32_t as they lie in memory
U32Bytes(v) == [i \in 1..4 |-> (v \div Pow256(i - 1)) % 256]

\* the uint32_t read back from four bytes of memory
U32Value(b) == b[1] + 256 * b[2] + 65536 * b[3] + 16777216 * b[4]

\* the first header_size bytes of a Message: kind, then size
HeaderBytes(msg) == U32Bytes(msg.kind) \o U32Bytes(msg.size)

\* a body of the given size whose bytes differ from place to place
MakeBody(size, seed) == [i \in 1..size |-> (37 * seed + 11 * i + 5) % 256]

\* the messages drawn: an OK of every size, a SYNC_IMAGE empty or largest
Messages ==
  { [kind |-> 1, size |-> s, body |-> MakeBody(s, 1)] : s \in Sizes } \cup
  { [kind |-> 290, size |-> s, body |-> MakeBody(s, 290)] : s \in {0, MaxBody} }

RECURSIVE Flatten(_)
Flatten(ss) == IF ss = <<>> THEN <<>> ELSE Head(ss) \o Flatten(Tail(ss))

\* the byte stream header||body of a sequence of messages
RECURSIVE Frames(_)
Frames(ms) ==
  IF ms = <<>> THEN <<>>
  ELSE HeaderBytes(Head(ms)) \o Head(ms).body \o Frames(Tail(ms))

(***************************************************************************)
(* memcpy into a fixed block of memory indexed from 0.                     *)
(***************************************************************************)
Memcpy(mem, at, bytes) ==
  [i \in DOMAIN mem |->
     IF i >= at /\ i < at + Len(bytes) THEN bytes[i - at + 1] ELSE mem[i]]

Slice(s, from, n) == [i \in 1..n |-> s[from + i - 1]]

(***************************************************************************)
(* NetNode::Flush                                                          *)
(***************************************************************************)
Flush(n) ==
  IF n.nwritten <= 0 THEN n
  ELSE [n EXCEPT !.socket = Append(@, [i \in 1..n.nwritten |-> n.buffer[i - 1]]),
                 !.flushed = TRUE,
                 !.nwritten = 0]

\* memcpy(to = &buffer + nwritten, from, len); nwritten += len
BufferAppend(n, bytes) ==
  [n EXCEPT !.buffer = Memcpy(@, n.nwritten, bytes),
            !.nwritten = @ + Len(bytes),
            !.overrun = @ \/ (n.nwritten + Len(bytes) > WriteBufferSize)]

(***************************************************************************)
(* NetNode::Send: the header, then the body loop.                          *)
(***************************************************************************)
\* (mutant) the body loop copies from msg.body without the bytes_sent offset
RECURSIVE SendBodyFromStart(_, _, _)
SendBodyFromStart(n, msg, bytes_sent) ==
  LET bytes_remaining == msg.size - bytes_sent
      space_left == WriteBufferSize - n.nwritten
  IN IF bytes_remaining <= space_left
       THEN BufferAppend(n, Slice(msg.body, 1, bytes_remaining))
       ELSE LET n1 == IF space_left > 0
                        THEN BufferAppend(n, Slice(msg.body, 1, space_left))
                        ELSE n
                sent1 == IF space_left > 0 THEN bytes_sent + space_left ELSE bytes_sent
            IN SendBodyFromStart(Flush(n1), msg, sent1)

\* (mutant) the rest of the body is copied when it is one byte too long
RECURSIVE SendBodyOffByOne(_, _, _)
SendBodyOffByOne(n, msg, bytes_sent) ==
  LET bytes_remaining == msg.size - bytes_sent
      space_left == WriteBufferSize - n.nwritten
  IN IF bytes_remaining <= space_left + 1
       THEN BufferAppend(n, Slice(msg.body, bytes_sent + 1, bytes_remaining))
       ELSE LET n1 == IF space_left > 0
                        THEN BufferAppend(n, Slice(msg.body, bytes_sent + 1, space_left))
                        ELSE n
                sent1 == IF space_left > 0 THEN bytes_sent + space_left ELSE bytes_sent
            IN SendBodyOffByOne(Flush(n1), msg, sent1)

RECURSIVE SendBody(_, _, _)
SendBody(n, msg, bytes_sent) ==
  LET bytes_remaining == msg.size - bytes_sent
      space_left == WriteBufferSize - n.nwritten
  IN IF bytes_remaining <= space_left
       THEN BufferAppend(n, Slice(msg.body, bytes_sent + 1, bytes_remaining))
       ELSE LET n1 == IF space_left > 0
                        THEN BufferAppend(n, Slice(msg.body, bytes_sent + 1, space_left))
                        ELSE n
                sent1 == IF space_left > 0 THEN bytes_sent + space_left ELSE bytes_sent
            IN SendBody(Flush(n1), msg, sent1)

\* (mutant) the buffer is flushed before every header
SendHeaderAlwaysFlushes(n, msg) == BufferAppend(Flush(n), HeaderBytes(msg))

SendHeader(n, msg) ==
  LET n0 == IF n.nwritten + HeaderSize > WriteBufferSize THEN Flush(n) ELSE n
  IN BufferAppend(n0, HeaderBytes(msg))

Send(n, msg) == SendBody(SendHeader(n, msg), msg, 0)

(***************************************************************************)
(* NetNode::Receive: one call on a chunk of len > 0 bytes.                 *)
(***************************************************************************)
\* _dispatcher(this): what the dispatcher sees in node->message
MessageKind(r) == U32Value(Slice(r.message, 1, 4))
MessageSize(r) == U32Value(Slice(r.message, 5, 4))

Dispatch(r) ==
  [r EXCEPT !.dispatched =
     Append(@, [kind |-> MessageKind(r), size |-> MessageSize(r), body |-> r.body])]

RECURSIVE Receive(_, _)
Receive(r, chunk) ==
  LET remaining == Len(chunk) IN
  IF r.mode = "HEADER"
    THEN LET bytes_to_go == HeaderSize - r.nread IN
         IF bytes_to_go <= remaining
           THEN LET hdr == [i \in 1..HeaderSize |->
                              IF i > r.nread THEN chunk[i - r.nread] ELSE r.message[i]]
                    size == U32Value(Slice(hdr, 5, 4))
                IN Receive([r EXCEPT !.message = hdr,
                                     !.nread = 0,
                                     !.body = [i \in 1..size |-> 0],
                                     !.mode = "BODY"],
                           Slice(chunk, bytes_to_go + 1, remaining - bytes_to_go))
           ELSE [r EXCEPT !.message =
                            [i \in 1..HeaderSize |->
                               IF i > r.nread /\ i <= r.nread + remaining
                                 THEN chunk[i - r.nread] ELSE r.message[i]],
                          !.nread = @ + remaining]
    ELSE LET bytes_to_go == MessageSize(r) - r.nread IN
         IF bytes_to_go <= remaining
           THEN LET body == [i \in 1..MessageSize(r) |->
                               IF i > r.nread THEN chunk[i - r.nread] ELSE r.body[i]]
                IN Receive([Dispatch([r EXCEPT !.body = body, !.nread = 0])
                              EXCEPT !.mode = "HEADER"],
                           Slice(chunk, bytes_to_go + 1, remaining - bytes_to_go))
           ELSE [r EXCEPT !.body =
                            [i \in 1..MessageSize(r) |->
                               IF i > r.nread /\ i <= r.nread + remaining
                                 THEN chunk[i - r.nread] ELSE r.body[i]],
                          !.nread = @ + remaining]

(***************************************************************************)
(* The framing state machine: a sender, its socket, and a receiver fed     *)
(* the socket's byte stream in arbitrary non-empty chunks.                 *)
(***************************************************************************)
NetNodeNew ==
  [buffer |-> [i \in 0..(WriteBufferSize - 1) |-> 0],
   nwritten |-> 0,
   flushed |-> FALSE,
   socket |-> <<>>,
   overrun |-> FALSE]

RecvNew ==
  [mode |-> "HEADER",
   nread |-> 0,
   message |-> [i \in 1..HeaderSize |-> 0],
   body |-> <<>>,
   fed |-> 0,
   dispatched |-> <<>>]

NetIdle ==
  /\ tx = NetNodeNew
  /\ rx = RecvNew
  /\ sentlog = <<>>
  /\ ages = <<>>
  /\ lastop = "new"

\* the engine's variables, where a specification does not use them
EngineIdle ==
  /\ config = <<>>
  /\ starts = <<>>
  /\ eng = <<>>
  /\ prod = <<>>
  /\ wk = <<>>

NetInit == NetIdle /\ EngineIdle

\* bytes handed to the socket so far, in order
Wire == Flatten(tx.socket)

\* ages of the bytes buffered after an operation that took n0 to n1: a Flush
\* inside it empties the buffer, and bytes appended since are new
AgesAfter(n0, n1) ==
  IF Len(n1.socket) > Len(n0.socket)
    THEN [i \in 1..n1.nwritten |-> 0]
    ELSE [i \in 1..n1.nwritten |-> IF i <= Len(ages) THEN ages[i] ELSE 0]

DoSend ==
  /\ Len(sentlog) < MaxMsgs
  /\ \E msg \in Messages :
       /\ tx' = Send(tx, msg)
       /\ sentlog' = Append(sentlog, msg)
       /\ ages' = AgesAfter(tx, tx')
  /\ lastop' = "Send"
  /\ UNCHANGED <<rx, config, starts, eng, prod, wk>>

DoFlush ==
  /\ tx' = Flush(tx)
  /\ ages' = AgesAfter(tx, tx')
  /\ lastop' = "Flush"
  /\ UNCHANGED <<rx, sentlog, config, starts, eng, prod, wk>>

\* (mutant) the tick flag is left set
OnFlushTimeoutKeepsFlag(n) ==
  IF ~n.flushed /\ n.nwritten > 0 THEN Flush(n) ELSE n

\* client::OnFlushTimeout, for this connection
OnFlushTimeoutNode(n) ==
  [(IF ~n.flushed /\ n.nwritten > 0 THEN Flush(n) ELSE n) EXCEPT !.flushed = FALSE]

DoFlushTimeout ==
  /\ tx' = OnFlushTimeoutNode(tx)
  /\ ages' = IF Len(tx'.socket) > Len(tx.socket)
               THEN <<>>
               ELSE [i \in 1..Len(ages) |-> IF ages[i] < MaxAge THEN ages[i] + 1 ELSE MaxAge]
  /\ lastop' = "OnFlushTimeout"
  /\ UNCHANGED <<rx, sentlog, config, starts, eng, prod, wk>>

\* chunk lengths the reads deliver when n bytes are unread
ChunkLens(n) == {l \in 1..n : l <= MaxChunk \/ l = n}

\* client::OnRead with nread > 0: the next len bytes of the stream
DoReceive ==
  /\ \E len \in ChunkLens(Len(Wire) - rx.fed) :
       rx' = [Receive(rx, Slice(Wire, rx.fed + 1, len)) EXCEPT !.fed = @ + len]
  /\ lastop' = "Receive"
  /\ UNCHANGED <<tx, sentlog, ages, config, starts, eng, prod, wk>>

NetNext == DoSend \/ DoFlush \/ DoReceive

SpecNet == NetInit /\ [][NetNext]_vars

\* Send calls and flush-timer ticks on one connection
FlushNext == DoSend \/ DoFlush \/ DoFlushTimeout

SpecFlush == NetInit /\ [][FlushNext]_vars

\* messages of every body size from empty to larger than the buffer
AnySize == {[kind |-> 1, size |-> sz, body |-> MakeBody(sz, 1)] : sz \in 0..MaxBody}

\* Send of a message of any size
DoSendAny ==
  /\ Len(sentlog) < MaxMsgs
  /\ \E msg \in AnySize :
       /\ tx' = Send(tx, msg)
       /\ sentlog' = Append(sentlog, msg)
       /\ ages' = AgesAfter(tx, tx')
  /\ lastop' = "Send"
  /\ UNCHANGED <<rx, config, starts, eng, prod, wk>>

\* Send calls of every size, Flush calls and flush-timer ticks on one
\* connection: a Send or a Flush meets every fill of the buffer
FillNext == DoSendAny \/ DoFlush \/ DoFlushTimeout

SpecFill == NetInit /\ [][FillNext]_vars


(***************************************************************************)
(* The image-slab partition of client::StartRender.                        *)
(***************************************************************************)
\* image widths drawn: small ones, the scenarios' 640 and 641, and widths
\* around and beyond the range of a signed 16-bit integer
Widths == (1..12) \cup {640, 641, 32767, 32768, 49152, 65535}

\* most workers a partition is computed for
MaxSlabs == 4

ToUint16(v) == v % 65536

\* (mutant) an offset kept in an unsigned 16-bit integer
ToInt16Unsigned(v) == v % 65536

\* conversion to int16_t
ToInt16(v) == LET m == v % 65536 IN IF m >= 32768 THEN m - 65536 ELSE m

\* uint16_t chunk_size = config->width / config->workers.size()
ChunkSize(cfg) == ToUint16(cfg.width \div cfg.workers)

\* int16_t offset = (id - 1) * chunk_size
SlabOffset(id, cfg) == ToInt16((id - 1) * ChunkSize(cfg))

\* (mutant) the last worker gets the same chunk as the others
SlabChunkNoRemainder(id, cfg) == ChunkSize(cfg)

\* chunk_size as it stands when the payload is built
SlabChunk(id, cfg) ==
  IF id = cfg.workers
    THEN ToUint16(cfg.width - (id - 1) * ChunkSize(cfg))
    ELSE ChunkSize(cfg)

\* uint32_t payload = (offset << 16) | chunk_size, as its two 16-bit halves,
\* where the shift is defined (offset >= 0) and as a two's-complement shift
\* gives it otherwise
Payload(id, cfg) ==
  [hi |-> SlabOffset(id, cfg) % 65536, lo |-> SlabChunk(id, cfg)]

\* 16-bit values standing for what an undefined shift may leave in a half
UndefinedHalves == {0, 65535}

\* the payloads the statement can produce: offset << 16 with a negative
\* offset is undefined, so then any payload may result
Payloads(id, cfg) ==
  IF SlabOffset(id, cfg) >= 0
    THEN {Payload(id, cfg)}
    ELSE {Payload(id, cfg)} \cup
         {[hi |-> h, lo |-> l] : h \in UndefinedHalves, l \in UndefinedHalves}

\* what the lambda of StartRender computes for worker id
RenderStart(id, cfg) ==
  [id |-> id,
   offset |-> SlabOffset(id, cfg),
   chunk_size |-> SlabChunk(id, cfg),
   payload |-> Payload(id, cfg)]

PartInit ==
  /\ NetIdle
  /\ config \in {[width |-> w, workers |-> n] : w \in Widths, n \in 1..MaxSlabs}
  /\ config.width >= config.workers
  /\ starts = <<>>
  /\ eng = <<>>
  /\ prod = <<>>
  /\ wk = <<>>

\* one round of the ForEachNetNode loop of StartRender
PartStep ==
  /\ Len(starts) < config.workers
  /\ \E payload \in Payloads(Len(starts) + 1, config) :
       starts' = Append(starts, [RenderStart(Len(starts) + 1, config)
                                   EXCEPT !.payload = payload])
  /\ UNCHANGED <<netVars, config, eng, prod, wk>>

SpecPart == PartInit /\ [][PartStep]_vars


(***************************************************************************)
(* The engine: worker lifecycle, mesh handoff, monitors, image merge.      *)
(***************************************************************************)
\* config->workers.size(), for the worker lists drawn
WorkerCounts == {1, 2}
\* meshes the scene script declares at most
MaxMeshes == 2
\* the command line's intervals (max_intervals)
MaxIntervals == 2
\* SPACECODE_MAX, scaled down (an odd bound above twice the code 900)
SpaceCodeMax == 2047
\* worker counts of the routing model
MaxRouteWorkers == 3
\* network { runaway = 5 }, and progress in the same unit
Runaway == 5

\* progress values the workers report: the slowest, one exactly the runaway
\* margin ahead of it, and one beyond the margin
ProgressVals == {0, Runaway, Runaway + 1}

\* (produced, killed, queued) of one RENDER_STATS
StatsVals == {<<0, 0, 0>>, <<2, 1, 0>>}

\* space codes of the mesh centroids drawn
MeshCodes == {900, SpaceCodeMax}

\* pixels of an image buffer
Pixels == 1..2

\* FLT_MANT_DIG: the significand of a float, the element type of Buffer
FltMantDig == 24

\* the least integer a float cannot tell from its successor
FltExact == 2^FltMantDig

\* the tiles worker id may deliver: small values, and one at the edge of
\* what a float represents exactly
TileVals(id) == {[i \in Pixels |-> IF i = 1 THEN 1 ELSE id],
                 [i \in Pixels |-> IF i = 1 THEN FltExact ELSE 0]}

\* the bounding box worker id reports after BUILD_BVH
BoundsOf(id) == 10 * id

Nodes == 1..config.workers

\* a null Mesh*
NilMesh == [id |-> 0, code |-> -1]

\* message kinds a worker reacts to with a message or by starting / stopping
Answered ==
  {"INIT", "SYNC_CONFIG", "SYNC_MESH", "SYNC_CAMERA", "SYNC_EMISSIVE",
   "BUILD_BVH", "SYNC_WBVH", "RENDER_START", "RENDER_STOP"}

\* message kinds counted per worker over the run
Counted == Answered \ {"SYNC_MESH"}

Msg(kind, body) == [kind |-> kind, body |-> body]

\* node->Send(request): the message joins the connection's stream to the worker
NodeSend(e, id, msg) ==
  [e EXCEPT !.outbox[id] = IF msg.kind \in Answered THEN Append(@, msg) ELSE @,
            !.nsent[id] = IF msg.kind \in Counted
                            THEN [@ EXCEPT ![msg.kind] = @ + 1] ELSE @,
            !.meshes_sent = IF msg.kind = "SYNC_MESH" THEN @ + 1 ELSE @,
            !.mesh_log = IF msg.kind = "SYNC_MESH"
                           THEN Append(@, [mesh |-> msg.body, node |-> id]) ELSE @,
            !.sentnow[id] = Append(@, msg)]

\* Library::ForEachNetNode: every node, in id order
RECURSIVE ForEachFrom(_, _, _)
ForEachFrom(F(_, _), e, id) ==
  IF id > config.workers THEN e ELSE ForEachFrom(F, F(e, id), id + 1)

ForEachNetNode(F(_, _), e) == ForEachFrom(F, e, 1)

\* (mutant) the table is resized to id + 1 on every store
StoreMeshResizes(e, id, mesh) ==
  LET grown == [i \in 1..(id + 1) |->
                  IF i <= Len(e.meshes) THEN e.meshes[i] ELSE NilMesh]
  IN [e EXCEPT !.meshes = [grown EXCEPT ![id + 1] = mesh]]

\* Library::StoreMesh on the slot table (slot i is element i + 1)
StoreMesh(e, id, mesh) ==
  LET grown == IF id < Len(e.meshes)
                 THEN e.meshes
                 ELSE [i \in 1..(id + 1) |->
                         IF i <= Len(e.meshes) THEN e.meshes[i] ELSE NilMesh]
  IN [e EXCEPT !.meshes = [grown EXCEPT ![id + 1] = mesh]]

\* (mutant) the insert variant assigns slot id in place
StoreMeshInsertAssigns(e, id, mesh) == StoreMesh(e, id, mesh)

\* Library::StoreMesh of the resize-then-insert implementation: the occupant
\* of an existing slot is deleted and the slot set to nullptr, a short table is
\* resized to id elements, and the value is inserted before position id
StoreMeshInsert(e, id, mesh) ==
  LET sized == IF id < Len(e.meshes)
                 THEN [e.meshes EXCEPT ![id + 1] = NilMesh]
                 ELSE [i \in 1..id |->
                         IF i <= Len(e.meshes) THEN e.meshes[i] ELSE NilMesh]
  IN [e EXCEPT !.meshes = SubSeq(sized, 1, id) \o <<mesh>>
                            \o SubSeq(sized, id + 1, Len(sized))]

\* Library::LookupMesh
LookupMesh(e, id) == IF id < Len(e.meshes) THEN e.meshes[id + 1] ELSE NilMesh

\* Library::ForEachMesh: the (id, mesh) pairs passed to func, in call order
RECURSIVE ForEachMeshFrom(_, _)
ForEachMeshFrom(e, id) ==
  IF id >= Len(e.meshes) THEN <<>>
  ELSE IF e.meshes[id + 1] = NilMesh THEN ForEachMeshFrom(e, id + 1)
  ELSE <<(<<id, e.meshes[id + 1]>>)>> \o ForEachMeshFrom(e, id + 1)

ForEachMesh(e) == ForEachMeshFrom(e, 1)

\* Library::NextMeshID
NextMeshID(e) == Len(e.meshes)

\* (mutant) the index lists the workers in descending id order
BuildSpatialIndexReversed(e) ==
  [e EXCEPT !.spatial_index = [i \in 1..config.workers |-> config.workers + 1 - i],
            !.chunk_size = ((SpaceCodeMax + 1) \div config.workers) + 1]

\* Library::BuildSpatialIndex
BuildSpatialIndex(e) ==
  [e EXCEPT !.spatial_index = [i \in 1..config.workers |-> i],
            !.chunk_size = ((SpaceCodeMax + 1) \div config.workers) + 1]

Min(a, b) == IF a < b THEN a ELSE b

\* Library::LookupNetNodeBySpaceCode
LookupNetNodeBySpaceCode(e, code) ==
  e.spatial_index[Min(code \div e.chunk_size, config.workers - 1) + 1]

\* the spacing of floats at v (v a non-negative integer)
RECURSIVE Ulp(_, _)
Ulp(v, u) == IF v < FltExact * u THEN u ELSE Ulp(v, 2 * u)

\* conversion to float: round to nearest, ties to even
FloatRound(v) ==
  LET u == Ulp(v, 1)
      q == v \div u
      r == v % u
  IN IF 2 * r < u THEN q * u
     ELSE IF 2 * r > u THEN (q + 1) * u
     ELSE (q + (q % 2)) * u

\* float + float
FloatAdd(a, b) == FloatRound(a + b)

\* (mutant) the tile replaces the accumulated values
MergeOverwrites(final, other) ==
  [i \in DOMAIN final |-> IF i <= Len(other) THEN other[i] ELSE final[i]]

\* Buffer::Merge
Merge(final, other) ==
  [i \in DOMAIN final |->
     IF i <= Len(other) THEN FloatAdd(final[i], other[i]) ELSE final[i]]

\* NetNode::IsInteresting(max_intervals)
IsInteresting(e, id) == e.quiet[id] < config.max_intervals

\* NetNode::Progress
Progress(e, id) == e.progress[id]

\* NetNode::ReceiveRenderStats: the window's run of all-zero entries, and the
\* progress last reported
ReceiveRenderStats(e, id, stats) ==
  [e EXCEPT !.quiet[id] = IF stats.rays = <<0, 0, 0>>
                            THEN Min(@ + 1, config.max_intervals) ELSE 0,
            !.progress[id] = stats.progress]

Called(e, fn) == [e EXCEPT !.calls[fn] = @ + 1]

(***************************************************************************)
(* client::StartSync, BuildWBVH, StartRender, StopRender                   *)
(***************************************************************************)
\* (mutant) mesh_synced starts with two permits
StartSyncTwoPermits(e) ==
  LET e1 == BuildSpatialIndex(Called(e, "StartSync"))
  IN [e1 EXCEPT !.image = [i \in Pixels |-> 0],
                !.mesh_read = 0,
                !.mesh_synced = 2,
                !.work_queued = TRUE,
                !.idler = TRUE]

StartSync(e) ==
  LET e1 == BuildSpatialIndex(Called(e, "StartSync"))
  IN [e1 EXCEPT !.image = [i \in Pixels |-> 0],
                !.mesh_read = 0,
                !.mesh_synced = 1,
                !.work_queued = TRUE,
                !.idler = TRUE]

BuildWBVHNode(e, id) ==
  NodeSend([e EXCEPT !.state[id] = "SYNCING_WBVH"], id, Msg("SYNC_WBVH", e.worker_bounds))

BuildWBVH(e) == ForEachNetNode(BuildWBVHNode, Called(e, "BuildWBVH"))

StartRenderNode(e, id) ==
  [NodeSend(e, id, Msg("RENDER_START", Payload(id, config)))
     EXCEPT !.state[id] = "RENDERING"]

StartRender(e) ==
  [ForEachNetNode(StartRenderNode, Called(e, "StartRender"))
     EXCEPT !.interesting_timer = TRUE, !.runaway_timer = TRUE]

\* (mutant) the worker is moved to SYNCING_IMAGES and sent nothing
StopRenderNodeSilent(e, id) == [e EXCEPT !.state[id] = "SYNCING_IMAGES"]

StopRenderNode(e, id) ==
  [NodeSend(e, id, Msg("RENDER_STOP", <<>>)) EXCEPT !.state[id] = "SYNCING_IMAGES"]

\* (mutant) the monitors' timers are left running
StopRenderKeepsTimers(e) == ForEachNetNode(StopRenderNode, Called(e, "StopRender"))

\* (mutant) only the interesting timer is stopped
StopRenderKeepsRunaway(e) ==
  ForEachNetNode(StopRenderNode,
                 [Called(e, "StopRender") EXCEPT !.interesting_timer = FALSE])

StopRender(e) ==
  ForEachNetNode(StopRenderNode,
                 [Called(e, "StopRender")
                    EXCEPT !.interesting_timer = FALSE, !.runaway_timer = FALSE])

(***************************************************************************)
(* client::OnConnect                                                       *)
(***************************************************************************)
\* (mutant) the id sent and kept is the 0-based position in the list
InitNodeZeroBased(e, id) ==
  [NodeSend([e EXCEPT !.state[id] = "INITIALIZING"], id, Msg("INIT", id - 1))
     EXCEPT !.me[id] = id - 1]

InitNode(e, id) ==
  [NodeSend([e EXCEPT !.state[id] = "INITIALIZING"], id, Msg("INIT", id))
     EXCEPT !.me[id] = id]

OnConnect(e, id) ==
  LET e1 == [e EXCEPT !.connected[id] = TRUE, !.num_workers_connected = @ + 1]
  IN IF e1.num_workers_connected < config.workers
       THEN e1
       ELSE ForEachNetNode(InitNode, e1)

(***************************************************************************)
(* client::OnOK                                                            *)
(***************************************************************************)
\* (mutant) the render starts with the first worker that is ready
OnOKSyncingWBVHNoFence(e, id) ==
  StartRender([e EXCEPT !.state[id] = "READY", !.num_workers_ready = @ + 1])

OnOKSyncingWBVH(e, id) ==
  LET e1 == [e EXCEPT !.state[id] = "READY", !.num_workers_ready = @ + 1]
  IN IF e1.num_workers_ready = config.workers THEN StartRender(e1) ELSE e1

\* (mutant) the worker BVH is built from the first bounds reported
OnOKBuildingBVHNoFence(e, id, msg) ==
  LET e1 == [e EXCEPT !.worker_bounds = Append(@, <<e.me[id], msg.body>>),
                      !.num_workers_built = @ + 1]
  IN IF config.linear_scan
       THEN OnOKSyncingWBVH([e1 EXCEPT !.state[id] = "SYNCING_WBVH"], id)
       ELSE IF e1.num_workers_built = 1 THEN BuildWBVH(e1) ELSE e1

\* (mutant) the linear-scan switch is ignored
OnOKBuildingBVHIgnoresLinear(e, id, msg) ==
  LET e1 == [e EXCEPT !.worker_bounds = Append(@, <<e.me[id], msg.body>>),
                      !.num_workers_built = @ + 1]
  IN IF e1.num_workers_built = config.workers THEN BuildWBVH(e1) ELSE e1

OnOKBuildingBVH(e, id, msg) ==
  LET e1 == [e EXCEPT !.worker_bounds = Append(@, <<e.me[id], msg.body>>),
                      !.num_workers_built = @ + 1]
  IN IF config.linear_scan
       THEN OnOKSyncingWBVH([e1 EXCEPT !.state[id] = "SYNCING_WBVH"], id)
       ELSE IF e1.num_workers_built = config.workers THEN BuildWBVH(e1) ELSE e1

\* (mutant) the sync starts with the first worker that is configured
OnOKConfiguringNoFence(e, id) ==
  LET e1 == [e EXCEPT !.state[id] = "SYNCING_ASSETS", !.num_workers_syncing = @ + 1]
  IN IF e1.num_workers_syncing = 1 THEN StartSync(e1) ELSE e1

OnOKConfiguring(e, id) ==
  LET e1 == [e EXCEPT !.state[id] = "SYNCING_ASSETS", !.num_workers_syncing = @ + 1]
  IN IF e1.num_workers_syncing = config.workers THEN StartSync(e1) ELSE e1

\* (mutant) every acknowledgement posts mesh_synced twice
OnOKSyncingAssetsPostsTwice(e, id) ==
  [StoreMesh(e, e.current_mesh_id, NilMesh)
     EXCEPT !.mesh_synced = @ + 2, !.mesh_acks = @ + 1]

\* (mutant) the acknowledgement releases the mesh and posts nothing
OnOKSyncingAssetsNoPost(e, id) ==
  [StoreMesh(e, e.current_mesh_id, NilMesh) EXCEPT !.mesh_acks = @ + 1]

OnOKSyncingAssets(e, id) ==
  [StoreMesh(e, e.current_mesh_id, NilMesh)
     EXCEPT !.mesh_synced = @ + 1, !.mesh_acks = @ + 1]

OnOK(e, id, msg) ==
  CASE e.state[id] = "INITIALIZING" ->
         NodeSend([e EXCEPT !.state[id] = "CONFIGURING"], id, Msg("SYNC_CONFIG", <<>>))
    [] e.state[id] = "CONFIGURING" -> OnOKConfiguring(e, id)
    [] e.state[id] = "SYNCING_ASSETS" -> OnOKSyncingAssets(e, id)
    [] e.state[id] = "SYNCING_CAMERA" ->
         NodeSend([e EXCEPT !.state[id] = "SYNCING_EMISSIVE"], id, Msg("SYNC_EMISSIVE", <<>>))
    [] e.state[id] = "SYNCING_EMISSIVE" ->
         NodeSend([e EXCEPT !.state[id] = "BUILDING_BVH"], id, Msg("BUILD_BVH", <<>>))
    [] e.state[id] = "BUILDING_BVH" -> OnOKBuildingBVH(e, id, msg)
    [] e.state[id] = "SYNCING_WBVH" -> OnOKSyncingWBVH(e, id)
    [] OTHER -> e

(***************************************************************************)
(* client::OnRenderStats, OnSyncImage, DispatchMessage                     *)
(***************************************************************************)
OnRenderStats(e, id, msg) == ReceiveRenderStats(e, id, msg.body)

CloseNode(e, id) == [e EXCEPT !.closed[id] = TRUE]

OnSyncImage(e, id, msg) ==
  LET e1 == [e EXCEPT !.image = Merge(@, msg.body),
                      !.merged = Append(@, id),
                      !.num_workers_complete = @ + 1]
  IN IF e1.num_workers_complete < config.workers
       THEN e1
       ELSE [ForEachNetNode(CloseNode, [e1 EXCEPT !.written = Append(@, e1.image)])
               EXCEPT !.flush_timer = FALSE]

\* (mutant) a message of any other kind is handled like an OK
DispatchMessageDefaultOK(e, id, msg) ==
  CASE msg.kind = "RENDER_STATS" -> OnRenderStats(e, id, msg)
    [] msg.kind = "SYNC_IMAGE" -> OnSyncImage(e, id, msg)
    [] OTHER -> OnOK(e, id, msg)

DispatchMessage(e, id, msg) ==
  CASE msg.kind = "OK" -> OnOK(e, id, msg)
    [] msg.kind = "RENDER_STATS" -> OnRenderStats(e, id, msg)
    [] msg.kind = "SYNC_IMAGE" -> OnSyncImage(e, id, msg)
    [] OTHER -> e

(***************************************************************************)
(* client::OnSyncIdle                                                      *)
(***************************************************************************)
SyncCameraNode(e, id) ==
  NodeSend([e EXCEPT !.state[id] = "SYNCING_CAMERA"], id, Msg("SYNC_CAMERA", <<>>))

\* (mutant) every mesh goes to the first worker of the index
OnSyncIdleFirstWorker(e) ==
  IF e.mesh_read = 0 THEN e
  ELSE LET e1 == [e EXCEPT !.mesh_read = @ - 1] IN
       IF e1.current_mesh_id = 0
         THEN ForEachNetNode(SyncCameraNode, [e1 EXCEPT !.idler = FALSE])
         ELSE NodeSend(e1, e1.spatial_index[1], Msg("SYNC_MESH", e1.current_mesh_id))

OnSyncIdle(e) ==
  IF e.mesh_read = 0 THEN e
  ELSE LET e1 == [e EXCEPT !.mesh_read = @ - 1] IN
       IF e1.current_mesh_id = 0
         THEN ForEachNetNode(SyncCameraNode, [e1 EXCEPT !.idler = FALSE])
         ELSE LET mesh == LookupMesh(e1, e1.current_mesh_id)
                  id == LookupNetNodeBySpaceCode(e1, mesh.code)
              IN NodeSend(e1, id, Msg("SYNC_MESH", e1.current_mesh_id))

(***************************************************************************)
(* client::OnInterestingTimeout, OnRunawayTimeout                          *)
(***************************************************************************)
OnInterestingTimeout(e) ==
  IF \A id \in Nodes : ~IsInteresting(e, id) THEN StopRender(e) ELSE e

Slowest(e) ==
  CHOOSE p \in {Progress(e, id) : id \in Nodes} :
    \A id \in Nodes : p <= Progress(e, id)

\* (mutant) a paused worker resumes as soon as it is within the margin
RunawayNodeResumesEarly(e, id, slowest) ==
  LET progress == Progress(e, id)
  IN IF progress > slowest + config.runaway
       THEN IF e.state[id] # "PAUSED"
              THEN NodeSend([e EXCEPT !.state[id] = "PAUSED"], id, Msg("RENDER_PAUSE", <<>>))
              ELSE e
       ELSE IF e.state[id] = "PAUSED"
              THEN NodeSend([e EXCEPT !.state[id] = "RENDERING"], id,
                            Msg("RENDER_RESUME", <<>>))
              ELSE e

\* (mutant) a worker exactly the margin ahead is paused too
RunawayNodePausesAtMargin(e, id, slowest) ==
  LET progress == Progress(e, id)
  IN IF progress >= slowest + config.runaway
       THEN IF e.state[id] # "PAUSED"
              THEN NodeSend([e EXCEPT !.state[id] = "PAUSED"], id, Msg("RENDER_PAUSE", <<>>))
              ELSE e
       ELSE IF progress <= slowest
              THEN IF e.state[id] = "PAUSED"
                     THEN NodeSend([e EXCEPT !.state[id] = "RENDERING"], id,
                                   Msg("RENDER_RESUME", <<>>))
                     ELSE e
              ELSE e

\* (mutant) a paused worker is never resumed
RunawayNodeNeverResumes(e, id, slowest) ==
  LET progress == Progress(e, id)
  IN IF progress > slowest + config.runaway /\ e.state[id] # "PAUSED"
       THEN NodeSend([e EXCEPT !.state[id] = "PAUSED"], id, Msg("RENDER_PAUSE", <<>>))
       ELSE e

RunawayNode(e, id, slowest) ==
  LET progress == Progress(e, id)
  IN IF progress > slowest + config.runaway
       THEN IF e.state[id] # "PAUSED"
              THEN NodeSend([e EXCEPT !.state[id] = "PAUSED"], id, Msg("RENDER_PAUSE", <<>>))
              ELSE e
       ELSE IF progress <= slowest
              THEN IF e.state[id] = "PAUSED"
                     THEN NodeSend([e EXCEPT !.state[id] = "RENDERING"], id,
                                   Msg("RENDER_RESUME", <<>>))
                     ELSE e
              ELSE e

OnRunawayTimeout(e) ==
  LET slowest == Slowest(e)
      Each(x, id) == RunawayNode(x, id, slowest)
  IN ForEachNetNode(Each, e)

(***************************************************************************)
(* The engine's state machine.  Each reactor callback is one action; the   *)
(* scene thread (OnSyncStart, SyncMesh) advances one statement at a time;  *)
(* a worker answers the requests on its connection in order.               *)
(***************************************************************************)
Configs ==
  {[workers |-> n, width |-> 641, runaway |-> Runaway,
    max_intervals |-> MaxIntervals, linear_scan |-> ls] :
     n \in WorkerCounts, ls \in BOOLEAN}

\* EngineInit and client::Init
EngineNew ==
  [state |-> [id \in Nodes |-> "NONE"],
   me |-> [id \in Nodes |-> 0],
   connected |-> [id \in Nodes |-> FALSE],
   closed |-> [id \in Nodes |-> FALSE],
   read_end |-> [id \in Nodes |-> "none"],
   acking |-> 0,
   quiet |-> [id \in Nodes |-> 0],
   progress |-> [id \in Nodes |-> 0],
   outbox |-> [id \in Nodes |-> <<>>],
   inbox |-> [id \in Nodes |-> <<>>],
   num_workers_connected |-> 0,
   num_workers_syncing |-> 0,
   num_workers_built |-> 0,
   num_workers_ready |-> 0,
   num_workers_complete |-> 0,
   mesh_read |-> 0,
   mesh_synced |-> 0,
   current_mesh_id |-> 0,
   worker_bounds |-> <<>>,
   flush_timer |-> TRUE,
   interesting_timer |-> FALSE,
   runaway_timer |-> FALSE,
   idler |-> FALSE,
   work_queued |-> FALSE,
   meshes |-> <<NilMesh>>,
   spatial_index |-> <<>>,
   chunk_size |-> 0,
   image |-> <<>>,
   exited |-> FALSE,
   \* history kept for the properties
   merged |-> <<>>,
   written |-> <<>>,
   calls |-> [fn \in {"StartSync", "BuildWBVH", "StartRender", "StopRender"} |-> 0],
   nsent |-> [id \in Nodes |-> [k \in Counted |-> 0]],
   meshes_sent |-> 0,
   mesh_log |-> <<>>,
   mesh_acks |-> 0,
   sentnow |-> [id \in Nodes |-> <<>>],
   op |-> "Init",
   node |-> 0]

LifeInit ==
  /\ NetIdle
  /\ starts = <<>>
  /\ config \in Configs
  /\ eng = EngineNew
  /\ prod = [pc |-> "idle", mesh |-> NilMesh, nil |-> FALSE, id |-> 0, published |-> 0,
             codes |-> <<>>]
  /\ wk = [id \in Nodes |-> [rendering |-> FALSE, tile |-> <<>>]]

\* a callback or step begins: nothing sent in it yet
Begin(e, op, id) ==
  [e EXCEPT !.sentnow = [i \in Nodes |-> <<>>], !.op = op, !.node = id]

Connect(id) ==
  /\ ~eng.exited /\ ~eng.connected[id]
  /\ eng' = OnConnect(Begin(eng, "OnConnect", id), id)
  /\ UNCHANGED <<netVars, config, starts, prod, wk>>

\* OnConnect with status != 0: exit(EXIT_FAILURE)
ConnectFailed(id) ==
  /\ ~eng.exited /\ ~eng.connected[id]
  /\ eng' = [Begin(eng, "OnConnectFailed", id) EXCEPT !.exited = TRUE]
  /\ UNCHANGED <<netVars, config, starts, prod, wk>>

\* client::OnRead delivering the next message of connection id
Read(id) ==
  /\ ~eng.exited /\ ~eng.closed[id]
  /\ eng.inbox[id] # <<>>
  /\ eng' = DispatchMessage(
              [Begin(eng, "OnRead", id) EXCEPT !.inbox[id] = Tail(@)],
              id, Head(eng.inbox[id]))
  /\ UNCHANGED <<netVars, config, starts, prod, wk>>

\* a rendering worker reports its statistics, and the reactor reads them
Stats(id) ==
  /\ ~eng.exited /\ ~eng.closed[id]
  /\ wk[id].rendering
  /\ \E rays \in StatsVals, p \in ProgressVals :
       eng' = DispatchMessage(Begin(eng, "OnRenderStats", id), id,
                              Msg("RENDER_STATS", [rays |-> rays, progress |-> p]))
  /\ UNCHANGED <<netVars, config, starts, prod, wk>>

SyncIdle ==
  /\ ~eng.exited /\ eng.idler
  /\ eng' = OnSyncIdle(Begin(eng, "OnSyncIdle", 0))
  /\ UNCHANGED <<netVars, config, starts, prod, wk>>

InterestingTimeout ==
  /\ ~eng.exited /\ eng.interesting_timer
  /\ eng' = OnInterestingTimeout(Begin(eng, "OnInterestingTimeout", 0))
  /\ UNCHANGED <<netVars, config, starts, prod, wk>>

RunawayTimeout ==
  /\ ~eng.exited /\ eng.runaway_timer
  /\ eng' = OnRunawayTimeout(Begin(eng, "OnRunawayTimeout", 0))
  /\ UNCHANGED <<netVars, config, starts, prod, wk>>

\* OnSyncStart: the scene script calls SyncMesh for a mesh, or has no more
\* meshes and SyncMesh(nullptr) ends the stream
SceneNext ==
  /\ ~eng.exited /\ eng.work_queued
  /\ prod.pc = "idle"
  /\ \E mesh \in {[id |-> 0, code |-> c] : c \in MeshCodes} \cup {NilMesh} :
       /\ mesh # NilMesh => prod.published < MaxMeshes
       /\ prod' = [prod EXCEPT !.pc = "wait", !.mesh = mesh,
                                !.nil = (mesh = NilMesh)]
  /\ UNCHANGED <<netVars, config, starts, eng, wk>>

\* (mutant) SyncMesh does not wait for mesh_synced
SyncMeshNoWait ==
  /\ ~eng.exited
  /\ prod.pc = "wait"
  /\ eng' = [Begin(eng, "SyncMesh.wait", 0) EXCEPT !.mesh_synced = @ - 1]
  /\ prod' = [prod EXCEPT !.pc = "store"]
  /\ UNCHANGED <<netVars, config, starts, wk>>

\* SyncMesh: sem_wait(&mesh_synced)
SyncMeshWait ==
  /\ ~eng.exited
  /\ prod.pc = "wait"
  /\ eng.mesh_synced > 0
  /\ eng' = [Begin(eng, "SyncMesh.wait", 0) EXCEPT !.mesh_synced = @ - 1]
  /\ prod' = [prod EXCEPT !.pc = "store"]
  /\ UNCHANGED <<netVars, config, starts, wk>>

\* SyncMesh: id = lib->NextMeshID(); mesh->id = id; lib->StoreMesh(id, mesh)
SyncMeshStore ==
  /\ ~eng.exited
  /\ prod.pc = "store"
  /\ IF prod.nil
       THEN /\ prod' = [prod EXCEPT !.pc = "publish", !.id = 0]
            /\ eng' = Begin(eng, "SyncMesh.store", 0)
       ELSE LET id == NextMeshID(eng) IN
            /\ prod' = [prod EXCEPT !.pc = "publish", !.id = id]
            /\ eng' = StoreMesh(Begin(eng, "SyncMesh.store", 0), id,
                                 [prod.mesh EXCEPT !.id = id])
  /\ UNCHANGED <<netVars, config, starts, wk>>

\* SyncMesh: current_mesh_id = id
SyncMeshPublish ==
  /\ ~eng.exited
  /\ prod.pc = "publish"
  /\ eng' = [Begin(eng, "SyncMesh.publish", 0) EXCEPT !.current_mesh_id = prod.id]
  /\ prod' = [prod EXCEPT !.pc = "post"]
  /\ UNCHANGED <<netVars, config, starts, wk>>

\* SyncMesh: sem_post(&mesh_read); return id
SyncMeshPost ==
  /\ ~eng.exited
  /\ prod.pc = "post"
  /\ eng' = [Begin(eng, "SyncMesh.post", 0) EXCEPT !.mesh_read = @ + 1]
  /\ prod' = [prod EXCEPT !.pc = IF prod.nil THEN "done" ELSE "idle",
                           !.published = IF prod.nil THEN @ ELSE @ + 1,
                           !.codes = IF prod.nil THEN @ ELSE Append(@, prod.mesh.code)]
  /\ UNCHANGED <<netVars, config, starts, wk>>

\* the worker's answer to a request
Reply(id, req, tile) ==
  CASE req.kind = "BUILD_BVH" -> <<Msg("OK", BoundsOf(id))>>
    [] req.kind = "RENDER_START" -> <<>>
    [] req.kind = "RENDER_STOP" -> <<Msg("SYNC_IMAGE", tile)>>
    [] OTHER -> <<Msg("OK", <<>>)>>

\* worker id takes the next request off its connection and answers it
WorkerStep(id) ==
  /\ ~eng.exited
  /\ eng.outbox[id] # <<>>
  /\ LET req == Head(eng.outbox[id]) IN
     \E tile \in TileVals(id) :
       /\ eng' = [Begin(eng, "Worker", id)
                    EXCEPT !.outbox[id] = Tail(@),
                           !.inbox[id] = @ \o Reply(id, req, tile)]
       /\ wk' = [wk EXCEPT ![id].rendering =
                              IF req.kind = "RENDER_START" THEN TRUE
                              ELSE IF req.kind = "RENDER_STOP" THEN FALSE ELSE @,
                            ![id].tile =
                              IF req.kind = "RENDER_STOP" THEN tile ELSE @]
  /\ UNCHANGED <<netVars, config, starts, prod>>

Next ==
  \/ \E id \in Nodes : Connect(id)
  \/ \E id \in Nodes : ConnectFailed(id)
  \/ \E id \in Nodes : Read(id)
  \/ \E id \in Nodes : Stats(id)
  \/ \E id \in Nodes : WorkerStep(id)
  \/ SyncIdle
  \/ InterestingTimeout
  \/ RunawayTimeout
  \/ SceneNext
  \/ SyncMeshWait
  \/ SyncMeshStore
  \/ SyncMeshPublish
  \/ SyncMeshPost

Spec == LifeInit /\ [][Next]_vars

(***************************************************************************)
(* The same engine under fair scheduling.  The event loop runs every       *)
(* callback that stays ready (a completed connect, a readable socket, the  *)
(* idle handler, a running timer); the thread pool runs the scene thread,  *)
(* which goes on whenever it is not blocked in sem_wait; a worker answers  *)
(* the requests it has received and, while it renders, goes on reporting   *)
(* its statistics.                                                         *)
(***************************************************************************)
\* every worker id of any configuration
AllNodes == UNION {1..n : n \in WorkerCounts}

\* the callbacks and threads at work until the camera is sent; the render
\* monitors and the workers' statistics start with StartRender
HandoffNext ==
  \/ \E id \in Nodes : Connect(id)
  \/ \E id \in Nodes : ConnectFailed(id)
  \/ \E id \in Nodes : Read(id)
  \/ \E id \in Nodes : WorkerStep(id)
  \/ SyncIdle
  \/ SceneNext
  \/ SyncMeshWait
  \/ SyncMeshStore
  \/ SyncMeshPublish
  \/ SyncMeshPost

HandoffFairness ==
  /\ \A id \in AllNodes :
       /\ WF_vars(id \in Nodes /\ Connect(id))
       /\ WF_vars(id \in Nodes /\ Read(id))
       /\ WF_vars(id \in Nodes /\ WorkerStep(id))
  /\ WF_vars(SyncIdle)
  /\ WF_vars(SceneNext)
  /\ WF_vars(SyncMeshWait)
  /\ WF_vars(SyncMeshStore)
  /\ WF_vars(SyncMeshPublish)
  /\ WF_vars(SyncMeshPost)

SpecHandoff == LifeInit /\ [][HandoffNext]_vars /\ HandoffFairness


(***************************************************************************)
(* The engine with workers that break the protocol: besides its answers a  *)
(* worker may send a message of a kind the coordinator does not handle, or *)
(* an OK while its lifecycle state expects none.                           *)
(***************************************************************************)
\* some Message::Kind values other than OK, RENDER_STATS and SYNC_IMAGE
UnexpectedKinds == {"ERROR", "RAY"}

\* the lifecycle states with a case in OnOK
OKStates ==
  {"INITIALIZING", "CONFIGURING", "SYNCING_ASSETS", "SYNCING_CAMERA",
   "SYNCING_EMISSIVE", "BUILDING_BVH", "SYNCING_WBVH"}

\* OnRead delivers a message of an unhandled kind from worker id
UnexpectedKind(id) ==
  /\ ~eng.exited /\ eng.connected[id] /\ ~eng.closed[id]
  /\ \E kind \in UnexpectedKinds :
       eng' = DispatchMessage(Begin(eng, "OnRead.unexpected", id), id, Msg(kind, <<>>))
  /\ UNCHANGED <<netVars, config, starts, prod, wk>>

\* OnRead delivers an OK from worker id whose state has no case in OnOK
UnexpectedOK(id) ==
  /\ ~eng.exited /\ eng.connected[id] /\ ~eng.closed[id]
  /\ eng.state[id] \notin OKStates
  /\ eng' = DispatchMessage(Begin(eng, "OnOK.unexpected", id), id, Msg("OK", <<>>))
  /\ UNCHANGED <<netVars, config, starts, prod, wk>>

RogueNext ==
  \/ Next
  \/ \E id \in Nodes : UnexpectedKind(id)
  \/ \E id \in Nodes : UnexpectedOK(id)

\* the command line asks for one quiet interval
RogueInit ==
  /\ NetIdle
  /\ starts = <<>>
  /\ config \in {[c EXCEPT !.max_intervals = 1] : c \in Configs}
  /\ eng = EngineNew
  /\ prod = [pc |-> "idle", mesh |-> NilMesh, nil |-> FALSE, id |-> 0, published |-> 0,
             codes |-> <<>>]
  /\ wk = [id \in Nodes |-> [rendering |-> FALSE, tile |-> <<>>]]

SpecRogue == RogueInit /\ [][RogueNext]_vars

\* meshes in the scenes of the fair runs of the whole lifecycle
LifeMeshes == 1

\* OnSyncStart for a scene of at most LifeMeshes meshes, all at one place
LifeScene ==
  /\ ~eng.exited /\ eng.work_queued
  /\ prod.pc = "idle"
  /\ \E mesh \in {[id |-> 0, code |-> 900], NilMesh} :
       /\ mesh # NilMesh => prod.published < LifeMeshes
       /\ prod' = [prod EXCEPT !.pc = "wait", !.mesh = mesh,
                                !.nil = (mesh = NilMesh)]
  /\ UNCHANGED <<netVars, config, starts, eng, wk>>

\* the whole run when every connection succeeds
LifeNext ==
  \/ \E id \in Nodes : Connect(id)
  \/ \E id \in Nodes : Read(id)
  \/ \E id \in Nodes : Stats(id)
  \/ \E id \in Nodes : WorkerStep(id)
  \/ SyncIdle
  \/ InterestingTimeout
  \/ RunawayTimeout
  \/ LifeScene
  \/ SyncMeshWait
  \/ SyncMeshStore
  \/ SyncMeshPublish
  \/ SyncMeshPost

LifeFairness ==
  /\ \A id \in AllNodes :
       /\ WF_vars(id \in Nodes /\ Connect(id))
       /\ WF_vars(id \in Nodes /\ Read(id))
       /\ WF_vars(id \in Nodes /\ WorkerStep(id))
  /\ WF_vars(SyncIdle)
  /\ WF_vars(LifeScene)
  /\ WF_vars(SyncMeshWait)
  /\ WF_vars(SyncMeshStore)
  /\ WF_vars(SyncMeshPublish)
  /\ WF_vars(SyncMeshPost)
  /\ \A id \in AllNodes : WF_vars(id \in Nodes /\ Stats(id))
  /\ WF_vars(InterestingTimeout)
  /\ WF_vars(RunawayTimeout)

SpecLife == RogueInit /\ [][LifeNext]_vars /\ LifeFairness


(***************************************************************************)
(* The engine with connections that fail: OnRead may be called with        *)
(* nread < 0, for the end of the worker's stream (UV_EOF) or for any other *)
(* read error.  read_end remembers which of the two a connection has seen. *)
(***************************************************************************)
\* OnRead, nread < 0 and err.code == UV_EOF: uv_close(&node->socket, OnClose);
\* OnClose logs.  The stream ends after the data the worker sent.
ReadEOF(id) ==
  /\ ~eng.exited /\ eng.connected[id] /\ ~eng.closed[id]
  /\ eng.inbox[id] = <<>>
  /\ eng' = CloseNode([Begin(eng, "OnRead.eof", id) EXCEPT !.read_end[id] = "eof"], id)
  /\ UNCHANGED <<netVars, config, starts, prod, wk>>

\* OnRead, nread < 0 and any other error: the error is logged
ReadError(id) ==
  /\ ~eng.exited /\ eng.connected[id] /\ ~eng.closed[id]
  /\ eng' = [Begin(eng, "OnRead.error", id) EXCEPT !.read_end[id] = "error"]
  /\ UNCHANGED <<netVars, config, starts, prod, wk>>

LossNext ==
  \/ Next
  \/ \E id \in Nodes : ReadEOF(id)
  \/ \E id \in Nodes : ReadError(id)

\* linear scan, one quiet interval
LossInit ==
  /\ RogueInit
  /\ config.linear_scan

SpecLoss == LossInit /\ [][LossNext]_vars


(***************************************************************************)
(* The mesh acknowledgement statement by statement.  The scene thread runs *)
(* beside the reactor, so what it can see between the two statements of    *)
(* OnOK's SYNCING_ASSETS case matters: here that case takes two steps,     *)
(* with eng.acking naming the worker whose OK is being handled; the        *)
(* reactor runs no other callback in between, the scene thread and the     *)
(* workers run on.                                                        *)
(***************************************************************************)
\* (mutant) mesh_synced is posted before the mesh is released
AckStepsPostFirst == <<"post", "release">>

\* OnOK, case SYNCING_ASSETS: the statements in program order
AckSteps == <<"release", "post">>

AckStatement(e, name) ==
  IF name = "release"
    THEN StoreMesh(e, e.current_mesh_id, NilMesh)
    ELSE [e EXCEPT !.mesh_synced = @ + 1, !.mesh_acks = @ + 1]

\* OnRead delivers the OK of a worker in SYNCING_ASSETS: first statement
AckBegin(id) ==
  /\ ~eng.exited /\ ~eng.closed[id] /\ eng.acking = 0
  /\ eng.inbox[id] # <<>>
  /\ Head(eng.inbox[id]).kind = "OK"
  /\ eng.state[id] = "SYNCING_ASSETS"
  /\ eng' = AckStatement([Begin(eng, "OnRead", id) EXCEPT !.inbox[id] = Tail(@),
                                                         !.acking = id],
                         AckSteps[1])
  /\ UNCHANGED <<netVars, config, starts, prod, wk>>

\* second statement, and the handler returns
AckEnd ==
  /\ ~eng.exited /\ eng.acking # 0
  /\ eng' = [AckStatement(eng, AckSteps[2]) EXCEPT !.acking = 0]
  /\ UNCHANGED <<netVars, config, starts, prod, wk>>

\* the reactor's callbacks other than that OK
ReactorNext ==
  \/ \E id \in Nodes : Connect(id)
  \/ \E id \in Nodes : ConnectFailed(id)
  \/ \E id \in Nodes : Read(id)
  \/ \E id \in Nodes : Stats(id)
  \/ SyncIdle
  \/ InterestingTimeout
  \/ RunawayTimeout

AckNext ==
  \/ eng.acking = 0 /\ ReactorNext /\ eng'.mesh_acks = eng.mesh_acks
  \/ \E id \in Nodes : AckBegin(id)
  \/ AckEnd
  \/ \E id \in Nodes : WorkerStep(id)
  \/ SceneNext
  \/ SyncMeshWait
  \/ SyncMeshStore
  \/ SyncMeshPublish
  \/ SyncMeshPost

SpecAck == RogueInit /\ [][AckNext]_vars


(***************************************************************************)
(* The library's slot table on its own (the mesh table; the shader,        *)
(* texture, material and net-node tables are stored the same way): any     *)
(* sequence of stores at ids 1..MaxSlot and of ForEachMesh calls.  eng     *)
(* holds the table, the last store's arguments and the last visit list.    *)
(***************************************************************************)
\* largest id stored at
MaxSlot == 3

\* Mesh* values stored: two meshes and nullptr
SlotVals == {[id |-> 0, code |-> c] : c \in {900, SpaceCodeMax}} \cup {NilMesh}

\* Library::Library(): ID #0 is always reserved
LibInit ==
  /\ NetIdle
  /\ config = <<>>
  /\ starts = <<>>
  /\ eng = [meshes |-> <<NilMesh>>, op |-> "new",
            stored |-> [id |-> 0, value |-> NilMesh], visited |-> <<>>]
  /\ prod = <<>>
  /\ wk = <<>>

LibStore ==
  /\ \E id \in 1..MaxSlot, v \in SlotVals :
       eng' = [StoreMesh(eng, id, v) EXCEPT !.op = "Store",
                                            !.stored = [id |-> id, value |-> v]]
  /\ UNCHANGED <<netVars, config, starts, prod, wk>>

LibForEach ==
  /\ eng' = [eng EXCEPT !.op = "ForEach", !.visited = ForEachMesh(eng)]
  /\ UNCHANGED <<netVars, config, starts, prod, wk>>

LibNext == LibStore \/ LibForEach

SpecLib == LibInit /\ [][LibNext]_vars

(***************************************************************************)
(* The same table under the resize-then-insert implementation: stores at   *)
(* ids 1..MaxSlot while the table has fewer than MaxTable elements.        *)
(***************************************************************************)
\* longest table stored into
MaxTable == 5

LibStoreInsert ==
  /\ Len(eng.meshes) < MaxTable
  /\ \E id \in 1..MaxSlot, v \in SlotVals :
       eng' = [StoreMeshInsert(eng, id, v) EXCEPT !.op = "Store",
                                                  !.stored = [id |-> id, value |-> v]]
  /\ UNCHANGED <<netVars, config, starts, prod, wk>>

InsertNext == LibStoreInsert \/ LibForEach

SpecInsert == LibInit /\ [][InsertNext]_vars


(***************************************************************************)
(* The spatial router on its own: the index is built for n workers, then   *)
(* codes are looked up as OnSyncIdle does for each mesh; prod holds the    *)
(* code looked up last and the worker id returned for it.                  *)
(***************************************************************************)
RouteInit ==
  /\ NetIdle
  /\ config \in {[workers |-> n] : n \in 1..MaxRouteWorkers}
  /\ starts = <<>>
  /\ eng = EngineNew
  /\ prod = <<>>
  /\ wk = <<>>

\* OnOK in CONFIGURING, all workers syncing: lib->BuildSpatialIndex()
RouteBuild ==
  /\ eng.spatial_index = <<>>
  /\ eng' = BuildSpatialIndex(eng)
  /\ UNCHANGED <<netVars, config, starts, prod, wk>>

\* OnSyncIdle: id = lib->LookupNetNodeBySpaceCode(spacecode)
RouteLookup ==
  /\ eng.spatial_index # <<>>
  /\ \E code \in 0..SpaceCodeMax :
       prod' = [code |-> code, node |-> LookupNetNodeBySpaceCode(eng, code)]
  /\ UNCHANGED <<netVars, config, starts, eng, wk>>

RouteNext == RouteBuild \/ RouteLookup

SpecRoute == RouteInit /\ [][RouteNext]_vars


(***************************************************************************)
(* The image merge with more workers.  The engine starts as StopRender     *)
(* leaves it after a run in which the scene had no mesh, the workers       *)
(* reported their bounds in id order and every worker went quiet; the      *)
(* workers then deliver their tiles in any order.                          *)
(***************************************************************************)
MergeWorkers == 3

\* the engine while every worker renders and has reported no rays for
\* max_intervals windows: every fence passed, no mesh streamed
Rendering ==
  [BuildSpatialIndex(EngineNew) EXCEPT
     !.state = [id \in Nodes |-> "RENDERING"],
     !.me = [id \in Nodes |-> id],
     !.connected = [id \in Nodes |-> TRUE],
     !.quiet = [id \in Nodes |-> config.max_intervals],
     !.num_workers_connected = config.workers,
     !.num_workers_syncing = config.workers,
     !.num_workers_built = config.workers,
     !.num_workers_ready = config.workers,
     !.worker_bounds = [id \in Nodes |-> <<id, BoundsOf(id)>>],
     !.interesting_timer = TRUE,
     !.runaway_timer = TRUE,
     !.work_queued = TRUE,
     !.image = [i \in Pixels |-> 0],
     !.calls = [fn \in DOMAIN @ |->
                  IF fn = "StopRender" \/ (fn = "BuildWBVH" /\ config.linear_scan)
                    THEN 0 ELSE 1],
     !.nsent = [id \in Nodes |-> [k \in Counted |->
                  IF k = "RENDER_STOP" \/ (k = "SYNC_WBVH" /\ config.linear_scan)
                    THEN 0 ELSE 1]]]

\* the interesting monitor fires and stops the render
Stopped == OnInterestingTimeout(Begin(Rendering, "OnInterestingTimeout", 0))

MergeInit ==
  /\ NetIdle
  /\ starts = <<>>
  /\ config \in {[workers |-> MergeWorkers, width |-> 641, runaway |-> Runaway,
                  max_intervals |-> MaxIntervals, linear_scan |-> ls] :
                   ls \in BOOLEAN}
  /\ eng = Stopped
  /\ prod = [pc |-> "done", mesh |-> NilMesh, nil |-> TRUE, id |-> 0, published |-> 0,
             codes |-> <<>>]
  /\ wk = [id \in Nodes |-> [rendering |-> TRUE, tile |-> <<>>]]

MergeNext ==
  \/ \E id \in Nodes : WorkerStep(id)
  \/ \E id \in Nodes : Read(id)

SpecMerge == MergeInit /\ [][MergeNext]_vars

(***************************************************************************)
(* The pace control with more workers and with a margin of 0.  The engine  *)
(* starts as StartRender leaves it; the workers report statistics and the  *)
(* two monitors fire in any order.                                         *)
(***************************************************************************)
PaceWorkers == 3

\* network { runaway = ... }: no margin, and the configured one
Margins == {0, Runaway}

PaceInit ==
  /\ NetIdle
  /\ starts = <<>>
  /\ config \in {[workers |-> PaceWorkers, width |-> 641, runaway |-> r,
                  max_intervals |-> 1, linear_scan |-> TRUE] : r \in Margins}
  /\ eng = [Rendering EXCEPT !.quiet = [id \in Nodes |-> 0]]
  /\ prod = [pc |-> "done", mesh |-> NilMesh, nil |-> TRUE, id |-> 0, published |-> 0,
             codes |-> <<>>]
  /\ wk = [id \in Nodes |-> [rendering |-> TRUE, tile |-> <<>>]]

PaceNext ==
  \/ \E id \in Nodes : Stats(id)
  \/ RunawayTimeout
  \/ InterestingTimeout

SpecPace == PaceInit /\ [][PaceNext]_vars


(***************************************************************************)
(* Vocabulary of the engine's properties.                                  *)
(***************************************************************************)
KindsSent(id) == [i \in 1..Len(eng.sentnow[id]) |-> eng.sentnow[id][i].kind]

SentNow(id, kind) == \E i \in 1..Len(eng.sentnow[id]) : eng.sentnow[id][i].kind = kind

BeforeSyncing == {"NONE", "INITIALIZING", "CONFIGURING"}
BeforeBuilt ==
  BeforeSyncing \cup {"SYNCING_ASSETS", "SYNCING_CAMERA", "SYNCING_EMISSIVE", "BUILDING_BVH"}
BeforeReady == BeforeBuilt \cup {"SYNCING_WBVH"}

LiveMeshes == {i \in 1..Len(eng.meshes) : eng.meshes[i] # NilMesh}

(***************************************************************************)
(* C2. Mesh-handoff mutual exclusion: at most one mesh is published and    *)
(* not yet acknowledged, and whenever the scene thread is past the wait on *)
(* mesh_synced inside SyncMesh, be it for a mesh or for the end-of-assets  *)
(* nil, the OK of every mesh published before has been received.          *)
(***************************************************************************)
C2_HandoffExclusion ==
  /\ prod.published - eng.mesh_acks \in {0, 1}
  /\ Cardinality(LiveMeshes) <= 1
  /\ prod.pc \in {"store", "publish", "post"} => eng.mesh_acks = prod.published

C2_Witness ==
  /\ prod.pc = "wait"
  /\ prod.nil
  /\ prod.published = MaxMeshes
  /\ eng.mesh_acks = MaxMeshes - 1
  /\ eng.mesh_synced = 0
  /\ eng.meshes_sent = MaxMeshes

(***************************************************************************)
(* C4. Quiescence termination: a firing of the interesting monitor at      *)
(* which every worker is uninteresting invokes StopRender; StopRender is   *)
(* invoked at most once in a run, and each worker has been sent as many    *)
(* RENDER_STOP as StopRender was invoked.                                  *)
(***************************************************************************)
C4_StopOnce ==
  /\ eng.calls["StopRender"] <= 1
  /\ \A id \in Nodes : eng.nsent[id]["RENDER_STOP"] = eng.calls["StopRender"]

C4_FiringStops ==
  (eng'.op = "OnInterestingTimeout" /\ \A id \in Nodes : ~IsInteresting(eng, id))
    => /\ eng'.calls["StopRender"] = eng.calls["StopRender"] + 1
       /\ \A id \in Nodes : KindsSent(id)' = <<"RENDER_STOP">>

C4_Quiescence == [](C4_StopOnce) /\ [][C4_FiringStops]_vars

C4_Witness ==
  /\ config.workers = 2
  /\ eng.op = "OnInterestingTimeout"
  /\ eng.calls["StopRender"] = 1
  /\ \A id \in Nodes : eng.nsent[id]["RENDER_STOP"] = 1 /\ eng.quiet[id] = config.max_intervals

(***************************************************************************)
(* C5. Runaway stability.  As claimed: no firing of the runaway monitor    *)
(* sends a worker more than one message, and a worker's state changes away *)
(* from PAUSED only when its progress is at most the slowest progress.     *)
(***************************************************************************)
C5_OneChangePerFiring ==
  eng.op = "OnRunawayTimeout" => \A id \in Nodes : Len(eng.sentnow[id]) <= 1

C5_LeavesPausedOnlyAtMin ==
  \A id \in Nodes :
    (eng.state[id] = "PAUSED" /\ eng'.state[id] # "PAUSED")
      => Progress(eng, id) <= Slowest(eng)

C5_AsClaimed == [](C5_OneChangePerFiring) /\ [][C5_LeavesPausedOnlyAtMin]_vars

(***************************************************************************)
(* C5, amended: no firing of the runaway monitor sends a worker more than  *)
(* one message; a worker goes from PAUSED to RENDERING only in a firing of *)
(* the runaway monitor at which its progress is at most the slowest        *)
(* progress, and is sent RENDER_RESUME there; the only other way out of    *)
(* PAUSED is StopRender, which moves it to SYNCING_IMAGES whatever its     *)
(* progress.                                                               *)
(***************************************************************************)
C5_LeavesPaused ==
  \A id \in Nodes :
    (eng.state[id] = "PAUSED" /\ eng'.state[id] # "PAUSED")
      => \/ /\ eng'.state[id] = "RENDERING"
            /\ eng'.op = "OnRunawayTimeout"
            /\ Progress(eng, id) <= Slowest(eng)
            /\ KindsSent(id)' = <<"RENDER_RESUME">>
         \/ /\ eng'.state[id] = "SYNCING_IMAGES"
            /\ eng'.calls["StopRender"] = eng.calls["StopRender"] + 1

C5_Amended == [](C5_OneChangePerFiring) /\ [][C5_LeavesPaused]_vars

C5_Witness ==
  /\ config.workers = 2
  /\ eng.op = "OnRunawayTimeout"
  /\ eng.state[2] = "RENDERING"
  /\ KindsSent(2) = <<"RENDER_RESUME">>
  /\ eng.progress[1] = eng.progress[2]
  /\ eng.progress[2] > 0

(***************************************************************************)
(* C7. Fence #4: StartRender has been invoked exactly once as soon as no   *)
(* worker is short of READY and not before, and then every worker has been *)
(* counted READY; each worker has been sent as many RENDER_START as        *)
(* StartRender was invoked, so none while a worker is short of READY; and  *)
(* the handler that sends RENDER_START sends exactly that one message to   *)
(* every worker and leaves every worker in RENDERING.                      *)
(***************************************************************************)
C7_Fence4 ==
  /\ eng.calls["StartRender"] =
       IF \E id \in Nodes : eng.state[id] \in BeforeReady THEN 0 ELSE 1
  /\ eng.calls["StartRender"] = 1 => eng.num_workers_ready = config.workers
  /\ \A id \in Nodes : eng.nsent[id]["RENDER_START"] = eng.calls["StartRender"]
  /\ (\E id \in Nodes : SentNow(id, "RENDER_START"))
       => \A id \in Nodes :
            /\ eng.state[id] = "RENDERING"
            /\ eng.sentnow[id] = <<Msg("RENDER_START", Payload(id, config))>>

C7_Witness ==
  /\ config.workers = 2
  /\ eng.calls["StartRender"] = 1
  /\ eng.op = "OnRead"
  /\ \A id \in Nodes : SentNow(id, "RENDER_START") /\ eng.state[id] = "RENDERING"

(***************************************************************************)
(* C8. Fence #1: StartSync has been invoked exactly once as soon as no     *)
(* worker is short of SYNCING_ASSETS, that is with the last worker's OK in *)
(* CONFIGURING, and not before; while some worker is still short of it the *)
(* scene thread and the idle handler are not started and no SYNC_MESH has  *)
(* been sent.                                                              *)
(***************************************************************************)
C8_Fence1 ==
  LET early == \E id \in Nodes : eng.state[id] \in BeforeSyncing
  IN /\ eng.calls["StartSync"] = IF early THEN 0 ELSE 1
     /\ early => /\ eng.meshes_sent = 0
                 /\ ~eng.work_queued
                 /\ ~eng.idler
                 /\ prod.pc = "idle"
     /\ eng.calls["StartSync"] = 1 => eng.work_queued

C8_Witness ==
  /\ config.workers = 2
  /\ eng.calls["StartSync"] = 1
  /\ eng.meshes_sent >= 1
  /\ \E id \in Nodes : eng.state[id] = "SYNCING_ASSETS" /\ eng.outbox[id] # <<>>

(***************************************************************************)
(* C9. Fence #3: without linear scan, BuildWBVH has been invoked exactly   *)
(* once as soon as no worker is short of SYNCING_WBVH, that is with the    *)
(* last worker's OK in BUILDING_BVH, and not before; each worker has been  *)
(* sent as many SYNC_WBVH as BuildWBVH was invoked; and when it has been   *)
(* invoked the worker-bounds table holds exactly one entry (id, bounds of  *)
(* id) for each worker id, which is what every SYNC_WBVH carries.          *)
(***************************************************************************)
C9_Fence3 ==
  ~config.linear_scan =>
    /\ eng.calls["BuildWBVH"] =
         IF \E id \in Nodes : eng.state[id] \in BeforeBuilt THEN 0 ELSE 1
    /\ \A id \in Nodes : eng.nsent[id]["SYNC_WBVH"] = eng.calls["BuildWBVH"]
    /\ eng.calls["BuildWBVH"] = 1 =>
         /\ Len(eng.worker_bounds) = config.workers
         /\ \A id \in Nodes :
              Cardinality({i \in 1..Len(eng.worker_bounds) :
                             eng.worker_bounds[i] = <<id, BoundsOf(id)>>}) = 1
    /\ \A id \in Nodes :
         SentNow(id, "SYNC_WBVH") => eng.sentnow[id] = <<Msg("SYNC_WBVH", eng.worker_bounds)>>

C9_Witness ==
  /\ ~config.linear_scan
  /\ config.workers = 2
  /\ eng.calls["BuildWBVH"] = 1
  /\ eng.worker_bounds = <<(<<2, BoundsOf(2)>>), (<<1, BoundsOf(1)>>)>>
  /\ \A id \in Nodes : SentNow(id, "SYNC_WBVH") /\ eng.state[id] = "SYNCING_WBVH"

(***************************************************************************)
(* C10. Image merge.  As claimed: the merged image is written exactly      *)
(* once, when all n tiles have been merged and not before; what is written *)
(* is the pointwise sum of the n tiles, the same whatever the order in     *)
(* which the workers delivered them (here: the sum taken in id order); the *)
(* connections are closed and the flush timer is stopped when it has been  *)
(* written, and not before.                                                *)
(***************************************************************************)
RECURSIVE SumTiles(_)
SumTiles(id) ==
  IF id = 0 THEN [i \in Pixels |-> 0]
  ELSE [i \in Pixels |-> FloatAdd(SumTiles(id - 1)[i], wk[id].tile[i])]

C10_WrittenOnce ==
  /\ Len(eng.written) = IF Len(eng.merged) = config.workers THEN 1 ELSE 0
  /\ eng.num_workers_complete = Len(eng.merged)
  /\ \A i, j \in 1..Len(eng.merged) : i # j => eng.merged[i] # eng.merged[j]
  /\ \A id \in Nodes : eng.closed[id] <=> eng.written # <<>>
  /\ eng.flush_timer <=> eng.written = <<>>

C10_AsClaimed ==
  /\ C10_WrittenOnce
  /\ eng.written # <<>> => eng.written[1] = SumTiles(config.workers)

(***************************************************************************)
(* C10, amended: the merged image is written exactly once, when all n      *)
(* tiles have been merged and not before; what is written is the tiles     *)
(* added pointwise in float arithmetic to a zero image in the order in     *)
(* which the workers delivered them, a value that depends on that order    *)
(* when n >= 3; the connections are closed and the flush timer is stopped  *)
(* when it has been written, and not before.                               *)
(***************************************************************************)
RECURSIVE Accumulated(_)
Accumulated(k) ==
  IF k = 0 THEN [i \in Pixels |-> 0]
  ELSE [i \in Pixels |-> FloatAdd(Accumulated(k - 1)[i], wk[eng.merged[k]].tile[i])]

C10_ImageMerge ==
  /\ C10_WrittenOnce
  /\ eng.written # <<>> => eng.written[1] = Accumulated(config.workers)

C10_Witness ==
  /\ Len(eng.merged) = config.workers
  /\ eng.merged[1] # 1
  /\ Len(eng.written) = 1
  /\ eng.written[1] = Accumulated(config.workers)
  /\ eng.written[1] # SumTiles(config.workers)
  /\ \A id \in Nodes : eng.closed[id]
  /\ ~eng.flush_timer

(***************************************************************************)
(* C1. Framing round-trip: what the receiver has dispatched is always the  *)
(* messages passed to Send so far, in order, with equal kind, size and     *)
(* body; and once the sender is flushed and every byte of the stream has   *)
(* been fed to Receive, in whatever chunks, it has dispatched exactly all  *)
(* of them.                                                                *)
(***************************************************************************)
C1_RoundTrip ==
  /\ Len(rx.dispatched) <= Len(sentlog)
  /\ \A k \in 1..Len(rx.dispatched) : rx.dispatched[k] = sentlog[k]
  /\ (tx.nwritten = 0 /\ rx.fed = Len(Wire)) => rx.dispatched = sentlog

C1_Witness ==
  /\ Len(sentlog) = MaxMsgs
  /\ \E k \in 1..Len(sentlog) : sentlog[k].size > WriteBufferSize
  /\ \E k \in 1..Len(sentlog) : sentlog[k].size = 0
  /\ tx.nwritten = 0
  /\ rx.fed = Len(Wire)
  /\ rx.dispatched = sentlog
  /\ lastop = "Receive"

(***************************************************************************)
(* C6. Flush bound: no byte in the send buffer has sat through two ticks   *)
(* of the flush timer; by the second tick after it was appended it has     *)
(* been handed to the socket.                                              *)
(***************************************************************************)
C6_FlushBound ==
  /\ Len(ages) = tx.nwritten
  /\ \A i \in 1..Len(ages) : ages[i] <= 1

C6_Witness ==
  /\ lastop = "OnFlushTimeout"
  /\ tx.nwritten > 0
  /\ \E i \in 1..Len(ages) : ages[i] = 1
  /\ Len(tx.socket) > 0

(***************************************************************************)
(* C3. Partition coverage: once the slabs of all workers are computed,     *)
(* offset(1) = 0, offset(id+1) = offset(id) + chunk(id), and               *)
(* offset(n) + chunk(n) = W; chunk(id) = W div n for id < n and            *)
(* chunk(n) = W - (n-1) * (W div n).                                       *)
(***************************************************************************)
C3_Partition ==
  Len(starts) = config.workers =>
    LET n == config.workers
        W == config.width
    IN /\ starts[1].offset = 0
       /\ \A id \in 1..(n - 1) :
            starts[id + 1].offset = starts[id].offset + starts[id].chunk_size
       /\ starts[n].offset + starts[n].chunk_size = W
       /\ \A id \in 1..(n - 1) : starts[id].chunk_size = W \div n
       /\ starts[n].chunk_size = W - (n - 1) * (W \div n)

\* C11: the SYNC_MESH messages sent so far are the published meshes, one
\* message per mesh, in publication order (mesh ids 1, 2, ...), each to the
\* worker the spatial router returns for the mesh's code; at most the mesh just
\* published is still waiting; once the end of assets has been consumed every
\* published mesh has been sent; the nil (id 0) is never sent as a mesh.
C11_MeshDelivery ==
  /\ \A i \in 1..Len(eng.mesh_log) :
       /\ eng.mesh_log[i].mesh = i
       /\ i <= Len(prod.codes)
       /\ eng.mesh_log[i].node = LookupNetNodeBySpaceCode(eng, prod.codes[i])
       /\ eng.mesh_log[i].node \in Nodes
  /\ Len(eng.mesh_log) <= prod.published
  /\ prod.published <= Len(eng.mesh_log) + 1
  /\ (\E id \in Nodes : eng.nsent[id]["SYNC_CAMERA"] > 0)
       => Len(eng.mesh_log) = prod.published
  /\ \A id \in Nodes : \A i \in 1..Len(eng.sentnow[id]) :
       eng.sentnow[id][i].kind = "SYNC_MESH" =>
         /\ eng.sentnow[id][i].body # 0
         /\ \A j \in Nodes : j # id => eng.sentnow[j] = <<>>
         /\ Len(eng.sentnow[id]) = 1

\* two meshes went to two different workers and the end of assets followed
C11_Witness ==
  /\ Len(eng.mesh_log) = 2
  /\ eng.mesh_log[1].node # eng.mesh_log[2].node
  /\ \E id \in Nodes : eng.nsent[id]["SYNC_CAMERA"] > 0

\* C12: the router returns a worker id in 1..n_workers for every code in
\* 0..SPACECODE_MAX; a lookup of a code no smaller than the previous one
\* returns an id no smaller (non-decreasing in the code), and a repeated
\* lookup of the same code returns the same worker; with 2 workers the codes
\* 10 and 900 go to worker 1 and SPACECODE_MAX goes to worker 2.
C12_InRange ==
  prod # <<>> =>
    /\ prod.node \in 1..config.workers
    /\ config.workers = 2 =>
         /\ prod.code \in {10, 900} => prod.node = 1
         /\ prod.code = SpaceCodeMax => prod.node = 2

C12_Monotone ==
  (prod # <<>> /\ prod' # prod) =>
    /\ prod.code <= prod'.code => prod.node <= prod'.node
    /\ prod.code >= prod'.code => prod.node >= prod'.node

C12_Routing == [](C12_InRange) /\ [][C12_Monotone]_vars

\* the last code of the range was looked up with two workers and went to the second
C12_Witness ==
  /\ prod # <<>>
  /\ config.workers = 2
  /\ prod.code = SpaceCodeMax
  /\ prod.node = 2

\* C13: BuildSpatialIndex sets the chunk size to the ceiling of
\* (SPACECODE_MAX + 1) / n_workers, also when n_workers divides SPACECODE_MAX + 1.
C13_CeilingChunk ==
  eng.spatial_index # <<>> =>
    eng.chunk_size = (SpaceCodeMax + 1 + config.workers - 1) \div config.workers

\* C14: at each firing of the runaway monitor every worker is in RENDERING or
\* PAUSED; with p the worker's progress, pmin the least progress of all workers
\* and r the runaway margin: a RENDERING worker is sent RENDER_PAUSE and becomes
\* PAUSED if and only if p > pmin + r; a PAUSED worker is sent RENDER_RESUME and
\* becomes RENDERING if and only if p <= pmin; in every other case the worker is
\* sent nothing and keeps its state.
C14_Firing ==
  (eng'.op = "OnRunawayTimeout" /\ eng' # eng) =>
    LET pmin == CHOOSE p \in {eng.progress[i] : i \in Nodes} :
                  \A i \in Nodes : p <= eng.progress[i]
    IN \A id \in Nodes :
         /\ eng.state[id] \in {"RENDERING", "PAUSED"}
         /\ eng.state[id] = "RENDERING" =>
              IF eng.progress[id] > pmin + config.runaway
                THEN eng'.state[id] = "PAUSED" /\ KindsSent(id)' = <<"RENDER_PAUSE">>
                ELSE eng'.state[id] = "RENDERING" /\ eng'.sentnow[id] = <<>>
         /\ eng.state[id] = "PAUSED" =>
              IF eng.progress[id] <= pmin
                THEN eng'.state[id] = "RENDERING" /\ KindsSent(id)' = <<"RENDER_RESUME">>
                ELSE eng'.state[id] = "PAUSED" /\ eng'.sentnow[id] = <<>>

C14_RunawayRule == [][C14_Firing]_vars

\* a firing left a paused worker paused that is exactly the margin ahead of
\* the slowest worker, and sent it nothing
C14_Witness ==
  /\ config.workers = 2
  /\ eng.op = "OnRunawayTimeout"
  /\ eng.state[2] = "PAUSED"
  /\ eng.state[1] = "RENDERING"
  /\ eng.progress[1] = 0
  /\ eng.progress[2] = config.runaway
  /\ eng.sentnow[2] = <<>>

\* C15: a worker whose SYNC_IMAGE has been received and merged is in DONE, and
\* once the merged image has been written every worker is in DONE.
C15_TerminalDone ==
  /\ \A i \in 1..Len(eng.merged) : eng.state[eng.merged[i]] = "DONE"
  /\ eng.written # <<>> => \A id \in Nodes : eng.state[id] = "DONE"

\* C16: with linear scan set, BuildWBVH is never invoked and no SYNC_WBVH is
\* sent; no worker is left in SYNCING_WBVH; a worker is READY or beyond exactly
\* when its own bounds are recorded, whatever the other workers have reported;
\* the worker's OK in BUILDING_BVH appends its bounds and takes it to READY
\* within that handler (to RENDERING when it is the last and StartRender runs
\* there); StartRender has been invoked exactly once as soon as no worker is
\* short of READY and not before.
C16_LinearState ==
  config.linear_scan =>
    /\ eng.calls["BuildWBVH"] = 0
    /\ \A id \in Nodes :
         /\ eng.nsent[id]["SYNC_WBVH"] = 0
         /\ eng.state[id] # "SYNCING_WBVH"
         /\ (eng.state[id] \notin BeforeReady) <=>
              (\E i \in 1..Len(eng.worker_bounds) : eng.worker_bounds[i][1] = id)
    /\ eng.num_workers_built = eng.num_workers_ready
    /\ eng.calls["StartRender"] =
         IF \E id \in Nodes : eng.state[id] \in BeforeReady THEN 0 ELSE 1

C16_LinearStep ==
  config.linear_scan =>
    \A id \in Nodes :
      (eng.state[id] = "BUILDING_BVH" /\ eng'.state[id] # "BUILDING_BVH") =>
        /\ eng'.worker_bounds = Append(eng.worker_bounds, <<id, BoundsOf(id)>>)
        /\ eng'.num_workers_ready = eng.num_workers_ready + 1
        /\ eng'.state[id] =
             IF \E j \in Nodes \ {id} : eng.state[j] \in BeforeReady
               THEN "READY" ELSE "RENDERING"

C16_LinearScan == [](C16_LinearState) /\ [][C16_LinearStep]_vars

\* the second worker is READY with only its own bounds recorded while the
\* first has not reported its bounds yet
C16_Witness ==
  /\ config.linear_scan
  /\ config.workers = 2
  /\ eng.state[2] = "READY"
  /\ eng.state[1] \in BeforeBuilt
  /\ eng.worker_bounds = <<(<<2, BoundsOf(2)>>)>>
  /\ eng.calls["StartRender"] = 0

\* C17: the delivery of a message whose kind is not OK, RENDER_STATS or
\* SYNC_IMAGE, or of an OK while the worker's state has no case in OnOK,
\* leaves every worker's lifecycle state, the five fence counters and both
\* semaphores as they were, sends nothing to any worker, and does not exit.
C17_NoEffect ==
  (eng'.op \in {"OnRead.unexpected", "OnOK.unexpected"} /\ eng' # eng) =>
    /\ eng'.state = eng.state
    /\ eng'.num_workers_connected = eng.num_workers_connected
    /\ eng'.num_workers_syncing = eng.num_workers_syncing
    /\ eng'.num_workers_built = eng.num_workers_built
    /\ eng'.num_workers_ready = eng.num_workers_ready
    /\ eng'.num_workers_complete = eng.num_workers_complete
    /\ eng'.mesh_read = eng.mesh_read
    /\ eng'.mesh_synced = eng.mesh_synced
    /\ \A id \in Nodes : eng'.sentnow[id] = <<>> /\ eng'.outbox[id] = eng.outbox[id]
    /\ ~eng'.exited
    /\ eng'.closed = eng.closed

C17_ProtocolViolations == [][C17_NoEffect]_vars

\* an OK arrived from a worker that is rendering while the other is paused
C17_Witness ==
  /\ eng.op = "OnOK.unexpected"
  /\ config.workers = 2
  /\ eng.state[eng.node] = "RENDERING"
  /\ \E id \in Nodes : eng.state[id] = "PAUSED"

\* C18: a connection whose read signalled EOF is closed, and a connection
\* whose read failed with any other error is terminated as well: it is closed,
\* and no message is received and dispatched on it afterwards.
C18_Terminated ==
  \A id \in Nodes : eng.read_end[id] # "none" => eng.closed[id]

C18_NothingAfter ==
  \A id \in Nodes :
    (eng'.op = "OnRead" /\ eng'.node = id /\ eng' # eng) => eng.read_end[id] = "none"

C18_ReadErrors == [](C18_Terminated) /\ [][C18_NothingAfter]_vars

\* C19: a worker whose connection ended (EOF) before its image was delivered
\* makes the coordinator exit.
C19_LossAborts ==
  \A id \in Nodes :
    (eng.read_end[id] = "eof" /\ \A i \in 1..Len(eng.merged) : eng.merged[i] # id)
      => eng.exited

\* C20: the chunks handed to the socket so far, concatenated, followed by the
\* bytes now in the buffer are exactly header||body of all messages sent, in
\* send order, and the buffer never holds more than its size.  A Send hands
\* bytes to the socket if and only if the header does not fit in the space
\* left or the body does not fit in the space left after the header; otherwise
\* it leaves the socket alone and the buffer holds the frame after what it
\* held.  Apart from such a Send only Flush and a tick of the flush timer
\* hand bytes to the socket, and they hand over the whole buffer content.
Buffered == [i \in 1..tx.nwritten |-> tx.buffer[i - 1]]

C20_Conserved ==
  /\ tx.nwritten <= WriteBufferSize
  /\ ~tx.overrun
  /\ Wire \o Buffered = Frames(sentlog)

C20_Batched ==
  /\ sentlog' # sentlog =>
       LET msg == sentlog'[Len(sentlog')]
           headerFits == tx.nwritten + HeaderSize <= WriteBufferSize
           used == IF headerFits THEN tx.nwritten + HeaderSize ELSE HeaderSize
           bodyFits == msg.size <= WriteBufferSize - used
       IN /\ (tx'.socket # tx.socket) <=> ~(headerFits /\ bodyFits)
          /\ (headerFits /\ bodyFits) =>
               Buffered' = Buffered \o HeaderBytes(msg) \o msg.body
  /\ (sentlog' = sentlog /\ tx'.socket # tx.socket) =>
       /\ lastop' \in {"Flush", "OnFlushTimeout"}
       /\ tx'.socket = Append(tx.socket, Buffered)
       /\ tx'.nwritten = 0

C20_WriteBatching == [](C20_Conserved) /\ [][C20_Batched]_vars

\* a second Send found the buffer full after its header and handed its body
\* to the socket in pieces, leaving the rest of the frame in the buffer
C20_Witness ==
  /\ lastop = "Send"
  /\ Len(sentlog) = 2
  /\ Len(tx.socket) >= 3
  /\ tx.nwritten > 0
  /\ tx.nwritten < HeaderSize

\* C21: slot 0 of the table is always nil.  After a store at id >= 1 the
\* lookup of id returns the stored value, the table is as long as before or
\* just long enough for id, every other slot it had holds what it held, and
\* every other slot it gained is nil.  A ForEachMesh visits exactly the non-nil
\* slots, each with its occupant, in increasing id order.
C21_SlotZero ==
  /\ Len(eng.meshes) >= 1
  /\ eng.meshes[1] = NilMesh
  /\ LookupMesh(eng, 0) = NilMesh
  /\ eng.op = "ForEach" =>
       /\ \A i \in 1..Len(eng.visited) :
            /\ eng.visited[i][1] \in 1..(Len(eng.meshes) - 1)
            /\ eng.visited[i][2] = eng.meshes[eng.visited[i][1] + 1]
            /\ eng.visited[i][2] # NilMesh
            /\ i > 1 => eng.visited[i - 1][1] < eng.visited[i][1]
       /\ \A id \in 1..(Len(eng.meshes) - 1) :
            eng.meshes[id + 1] # NilMesh =>
              \E i \in 1..Len(eng.visited) : eng.visited[i][1] = id

C21_StoreStep ==
  eng'.op = "Store" =>
    LET id == eng'.stored.id
        old == Len(eng.meshes)
    IN /\ LookupMesh(eng', id) = eng'.stored.value
       /\ Len(eng'.meshes) = IF id < old THEN old ELSE id + 1
       /\ \A j \in 0..(Len(eng'.meshes) - 1) :
            j # id => eng'.meshes[j + 1] = IF j < old THEN eng.meshes[j + 1] ELSE NilMesh

C21_SlotStore == [](C21_SlotZero) /\ [][C21_StoreStep]_vars

\* a store at the last id grew a table that held a mesh, and the visit that
\* followed skipped the nil slots in between
C21_Witness ==
  /\ eng.op = "ForEach"
  /\ Len(eng.meshes) = MaxSlot + 1
  /\ Len(eng.visited) = 2
  /\ eng.visited[1][1] = 1
  /\ eng.visited[2][1] = MaxSlot

\* C22: the slot of every mesh whose acknowledgement has been posted on
\* mesh_synced is nil, also between the statements of the handler; at most
\* one mesh slot of the library is non-nil at any time; and all mesh slots are
\* nil once SYNC_CAMERA has been sent to the workers.
C22_ReleaseOnAck ==
  /\ \A i \in 1..eng.mesh_acks :
       i < Len(eng.meshes) => eng.meshes[i + 1] = NilMesh
  /\ Cardinality(LiveMeshes) <= 1
  /\ (\E id \in Nodes : eng.nsent[id]["SYNC_CAMERA"] > 0 \/ eng.state[id] = "SYNCING_CAMERA")
       => LiveMeshes = {}
  /\ eng.acking # 0 => eng.mesh_synced = 0

\* the second mesh has been released and its acknowledgement is not posted
\* yet, while the scene thread waits to hand over the end of assets
C22_Witness ==
  /\ eng.acking # 0
  /\ eng.mesh_acks = 1
  /\ prod.published = 2
  /\ LiveMeshes = {}
  /\ Len(eng.meshes) = 3
  /\ prod.pc = "wait"
  /\ prod.nil

C24_InsertStep ==
  (eng'.op = "Store" /\ eng'.stored.id < Len(eng.meshes)) =>
    LET id == eng'.stored.id
        old == Len(eng.meshes)
    IN /\ Len(eng'.meshes) = old + 1
       /\ eng'.meshes[id + 1] = eng'.stored.value
       /\ \A j \in 0..(id - 1) : eng'.meshes[j + 1] = eng.meshes[j + 1]
       /\ eng'.meshes[id + 2] = NilMesh
       /\ \A j \in (id + 1)..(old - 1) : eng'.meshes[j + 2] = eng.meshes[j + 1]

C24_InsertShifts == [][C24_InsertStep]_vars

\* a store at slot 1 of a table holding meshes in slots 2 and 3 moved them
\* to slots 3 and 4
C24_Witness ==
  /\ eng.op = "Store"
  /\ eng.stored.id = 1
  /\ eng.stored.value # NilMesh
  /\ Len(eng.meshes) = 5
  /\ eng.meshes[3] = NilMesh
  /\ eng.meshes[4] # NilMesh
  /\ eng.meshes[5] # NilMesh
  /\ eng.meshes[4] # eng.meshes[5]

\* C25: from StartSync on, mesh_read and mesh_synced are each 0 or 1 and
\* never both 1; StartSync leaves mesh_read = 0 and mesh_synced = 1; once the
\* end-of-assets nil has been consumed (SYNC_CAMERA has gone out) both are 0
\* and stay 0.
C25_Values ==
  eng.calls["StartSync"] >= 1 =>
    /\ eng.mesh_read \in {0, 1}
    /\ eng.mesh_synced \in {0, 1}
    /\ eng.mesh_read + eng.mesh_synced <= 1
    /\ (\E id \in Nodes : eng.nsent[id]["SYNC_CAMERA"] > 0) =>
         /\ eng.mesh_read = 0
         /\ eng.mesh_synced = 0

C25_Started ==
  eng'.calls["StartSync"] # eng.calls["StartSync"] =>
    /\ eng.calls["StartSync"] = 0
    /\ eng'.mesh_read = 0
    /\ eng'.mesh_synced = 1

C25_Semaphores == [](C25_Values) /\ [][C25_Started]_vars

\* the last mesh has been acknowledged and the nil is published: the
\* acknowledgement's permit was taken by the producer, its post is pending
C25_Witness ==
  /\ eng.calls["StartSync"] = 1
  /\ eng.mesh_acks = MaxMeshes
  /\ prod.pc = "done"
  /\ eng.mesh_read = 1
  /\ eng.mesh_synced = 0

\* the requests worker id has not answered yet and its answers not yet read
Outstanding(id) ==
  Len(SelectSeq(eng.outbox[id], LAMBDA m : m.kind # "RENDER_START"))
    + Len(eng.inbox[id])

\* C26: when SYNC_CAMERA is sent, and as long as a worker is in
\* SYNCING_CAMERA, the OK of every SYNC_MESH sent has been received: no
\* SYNC_MESH is on its way to a worker, and all that is outstanding for a
\* worker in SYNCING_CAMERA is its SYNC_CAMERA or the one OK that answers it.
\* The reactor reads current_mesh_id and the mesh slot (in OnSyncIdle after
\* taking mesh_read, and in OnOK when it releases the mesh) only while the
\* scene thread is outside the statements of SyncMesh that write them: it is
\* blocked on mesh_synced, has finished, or is running the scene script
\* between two calls of SyncMesh.
C26_Fence ==
  /\ (\E id \in Nodes : SentNow(id, "SYNC_CAMERA") \/ eng.state[id] = "SYNCING_CAMERA") =>
       /\ eng.mesh_acks = eng.meshes_sent
       /\ eng.meshes_sent = prod.published
       /\ \A id \in Nodes : \A i \in 1..Len(eng.outbox[id]) :
            eng.outbox[id][i].kind # "SYNC_MESH"
  /\ \A id \in Nodes : eng.state[id] = "SYNCING_CAMERA" =>
       /\ Outstanding(id) = 1
       /\ eng.outbox[id] \in {<<>>, <<Msg("SYNC_CAMERA", <<>>)>>}

ReactorReadsMesh ==
  \/ eng'.mesh_read < eng.mesh_read
  \/ eng'.mesh_acks > eng.mesh_acks

C26_ReadStep == ReactorReadsMesh => prod.pc \in {"idle", "wait", "done"}

C26_Ordering == [](C26_Fence) /\ [][C26_ReadStep]_vars

\* C26 as stated: the scene thread is blocked or finished at every read
C26_ReadBlocked == ReactorReadsMesh => prod.pc \in {"wait", "done"}

C26_AsClaimed == [](C26_Fence) /\ [][C26_ReadBlocked]_vars

\* two meshes were sent and acknowledged, the camera has gone out, and one
\* worker's OK for it is waiting to be read
C26_Witness ==
  /\ eng.meshes_sent = 2
  /\ eng.mesh_acks = 2
  /\ \E id \in Nodes :
       /\ eng.state[id] = "SYNCING_CAMERA"
       /\ eng.inbox[id] = <<Msg("OK", <<>>)>>

\* C27: after every firing of the runaway monitor every worker whose progress
\* is the least progress of all workers is in RENDERING, whatever the margin
\* (0 included); and in no state are all workers PAUSED.
C27_AfterFiring ==
  eng.op = "OnRunawayTimeout" =>
    \A id \in Nodes :
      (\A i \in Nodes : eng.progress[id] <= eng.progress[i]) => eng.state[id] = "RENDERING"

C27_NeverStalls ==
  /\ C27_AfterFiring
  /\ \E id \in Nodes : eng.state[id] # "PAUSED"

\* with a margin of 0 a firing has just resumed the one worker that is now
\* the slowest, while the other two are paused
C27_Witness ==
  /\ config.runaway = 0
  /\ eng.op = "OnRunawayTimeout"
  /\ \E id \in Nodes :
       /\ SentNow(id, "RENDER_RESUME")
       /\ eng.state[id] = "RENDERING"
       /\ \A i \in Nodes \ {id} : eng.state[i] = "PAUSED" /\ eng.progress[i] > eng.progress[id]

\* C28: the runaway and the interesting monitor fire only after StartRender
\* and before StopRender, and at every firing each worker is in RENDERING or
\* PAUSED.  Once RENDER_STOP has been sent to a worker it is sent no
\* RENDER_PAUSE, RENDER_RESUME or RENDER_START any more and is never in
\* RENDERING or PAUSED again.
C28_Firing ==
  eng'.op \in {"OnRunawayTimeout", "OnInterestingTimeout"} =>
    /\ eng.calls["StartRender"] = 1
    /\ eng.calls["StopRender"] = 0
    /\ \A id \in Nodes : eng.state[id] \in {"RENDERING", "PAUSED"}

C28_AfterStop ==
  \A id \in Nodes :
    eng.nsent[id]["RENDER_STOP"] > 0 =>
      /\ eng.state[id] \notin {"RENDERING", "PAUSED"}
      /\ eng'.state[id] \notin {"RENDERING", "PAUSED"}
      /\ eng'.nsent[id]["RENDER_START"] = eng.nsent[id]["RENDER_START"]
      /\ \A k \in {"RENDER_PAUSE", "RENDER_RESUME", "RENDER_START"} : ~SentNow(id, k)'

C28_MonitorWindow == [][C28_Firing /\ C28_AfterStop]_vars

\* the interesting monitor has fired and stopped the render while one worker
\* was beyond the margin ahead of another: every worker was sent RENDER_STOP
\* and nothing else
C28_Witness ==
  /\ eng.op = "OnInterestingTimeout"
  /\ eng.calls["StopRender"] = 1
  /\ \A id \in Nodes : KindsSent(id) = <<"RENDER_STOP">> /\ eng.state[id] = "SYNCING_IMAGES"
  /\ \E id, i \in Nodes : eng.progress[id] > eng.progress[i] + config.runaway

\* C29: while fewer than all configured workers have connected no INIT has
\* been sent and every worker is in NONE; the connection that completes the
\* set sends each worker i exactly one INIT with body i and moves it to
\* INITIALIZING; no further INIT is ever sent, and from then on worker i's id
\* is i: the ids are 1..n, distinct, and never 0.
C29_Before ==
  eng.num_workers_connected < config.workers =>
    \A id \in Nodes :
      /\ eng.nsent[id]["INIT"] = 0
      /\ eng.state[id] = "NONE"
      /\ eng.sentnow[id] = <<>>

C29_After ==
  eng.num_workers_connected >= config.workers =>
    /\ eng.num_workers_connected = config.workers
    /\ \A id \in Nodes : eng.nsent[id]["INIT"] = 1 /\ eng.me[id] = id
    /\ {eng.me[id] : id \in Nodes} = 1..config.workers

C29_LastConnect ==
  eng'.num_workers_connected # eng.num_workers_connected =>
    /\ eng'.num_workers_connected = eng.num_workers_connected + 1
    /\ eng'.num_workers_connected = config.workers =>
         \A id \in Nodes :
           /\ eng'.sentnow[id] = <<Msg("INIT", id)>>
           /\ eng'.state[id] = "INITIALIZING"

C29_InitOnce ==
  \A id \in Nodes :
    eng.nsent[id]["INIT"] = 1 => ~SentNow(id, "INIT")' /\ eng'.nsent[id]["INIT"] = 1

C29_ConnectFence ==
  [](C29_Before /\ C29_After) /\ [][C29_LastConnect /\ C29_InitOnce]_vars

\* worker 1 was the last of two to connect, and both were sent their INIT in
\* that callback
C29_Witness ==
  /\ config.workers = 2
  /\ eng.op = "OnConnect"
  /\ eng.node = 1
  /\ eng.sentnow[1] = <<Msg("INIT", 1)>>
  /\ eng.sentnow[2] = <<Msg("INIT", 2)>>
  /\ eng.state[2] = "INITIALIZING"

\* C30: after every Send and every Flush, for bodies of every size from 0 to
\* beyond the buffer size and every fill of the buffer before the call,
\* 0 <= nwritten <= the buffer size, and no copy made so far went past the
\* end of the buffer; a Flush of an empty buffer hands nothing to the socket
\* and leaves the flushed flag and the buffer as they were.
C30_Bound ==
  /\ 0 <= tx.nwritten
  /\ tx.nwritten <= WriteBufferSize
  /\ tx.overrun = FALSE

C30_EmptyFlush ==
  (lastop' = "Flush" /\ tx.nwritten = 0) =>
    /\ tx'.socket = tx.socket
    /\ tx'.flushed = tx.flushed
    /\ tx' = tx

C30_SendBufferBound == [](C30_Bound) /\ [][C30_EmptyFlush]_vars

\* a body larger than the buffer was sent into a part-filled buffer: it was
\* flushed twice on the way and the body's end fills the buffer to the last
\* byte
C30_Witness ==
  /\ lastop = "Send"
  /\ Len(sentlog) = 2
  /\ sentlog[2].size = MaxBody
  /\ Len(tx.socket) = 2
  /\ tx.nwritten = WriteBufferSize

\* C31: under fair scheduling, with workers that answer every SYNC_MESH with
\* one OK, every call of SyncMesh returns (the scene thread waiting in it is
\* eventually back in the script or finished), and once the scene thread has
\* been queued by StartSync the reactor eventually consumes the end of
\* assets: the idle handler is stopped and SYNC_CAMERA has been sent once to
\* every worker.
C31_Returns == (prod.pc = "wait") ~> (prod.pc \in {"idle", "done"})

C31_CameraSent ==
  /\ ~eng.idler
  /\ prod.pc = "done"
  /\ \A id \in Nodes : eng.nsent[id]["SYNC_CAMERA"] = 1

C31_HandoffProgress == C31_Returns /\ (eng.work_queued ~> C31_CameraSent)

\* the camera has gone out after a scene of MaxMeshes meshes, sent to two
\* workers
C31_Witness ==
  /\ C31_CameraSent
  /\ config.workers = 2
  /\ prod.published = MaxMeshes
  /\ eng.mesh_acks = MaxMeshes
  /\ eng.op = "OnSyncIdle"

\* the lifecycle order of the worker states; RENDERING and PAUSED share a
\* place
LifecycleRank(st) ==
  CASE st = "NONE" -> 0
    [] st = "INITIALIZING" -> 1
    [] st = "CONFIGURING" -> 2
    [] st = "SYNCING_ASSETS" -> 3
    [] st = "SYNCING_CAMERA" -> 4
    [] st = "SYNCING_EMISSIVE" -> 5
    [] st = "BUILDING_BVH" -> 6
    [] st = "SYNCING_WBVH" -> 7
    [] st = "READY" -> 8
    [] st \in {"RENDERING", "PAUSED"} -> 9
    [] st = "SYNCING_IMAGES" -> 10
    [] st = "DONE" -> 11

\* from some point on every report of a rendering worker shows no rays
EventuallyQuiet == <>[](\A id \in Nodes : wk[id].rendering => eng.quiet[id] > 0)

AllRendering == \A id \in Nodes : eng.state[id] \in {"RENDERING", "PAUSED"}
AllSyncingImages == \A id \in Nodes : eng.state[id] = "SYNCING_IMAGES"
ImageWritten == Len(eng.written) = 1

\* C32: no handler moves a worker backward in the lifecycle order, RENDERING
\* and PAUSED taken as one place.  When every worker connects, answers every
\* request and from some point on reports no ray activity, then under fair
\* scheduling the workers reach RENDERING, whenever they render they are
\* later all in SYNCING_IMAGES, and the merged image is eventually written,
\* with the worker BVH and with linear scan.
C32_Forward ==
  \A id \in Nodes : LifecycleRank(eng'.state[id]) >= LifecycleRank(eng.state[id])

C32_LifecycleProgress ==
  /\ [][C32_Forward]_vars
  /\ EventuallyQuiet =>
       /\ <>(\A id \in Nodes : eng.state[id] = "RENDERING")
       /\ AllRendering ~> AllSyncingImages
       /\ <>ImageWritten

\* the image of a two-worker run with the worker BVH and a mesh in the scene
\* has been written, one worker having reported progress beyond the margin
\* ahead of the other
C32_Witness ==
  /\ ImageWritten
  /\ ~config.linear_scan
  /\ config.workers = 2
  /\ eng.calls["BuildWBVH"] = 1
  /\ eng.meshes_sent = LifeMeshes
  /\ Len(eng.merged) = 2
  /\ \E id, i \in Nodes : eng.progress[id] > eng.progress[i] + config.runaway

====
